---- MODULE Spec2Model ----
(***************************************************************************)
(* Model of the LLM resource-rotation manager                              *)
(* (tools/pipeline/common/rotation.py) together with the persisted         *)
(* llm_providers / llm_keys tables it saves to and loads from              *)
(* (backend/app/db/models.py).                                             *)
(*                                                                         *)
(* Python indices are 0-based and are kept 0-based in key_idx / model_idx; *)
(* a list element at Python index i is sequence element i + 1.             *)
(* The database is taken to be importable and reachable (_has_db = True,   *)
(* no exception inside _save_to_db / _load_config).                        *)
(*                                                                         *)
(* Further specifications over the same variables: StepSpec follows        *)
(* update_settings and rotate statement by statement under the lock;       *)
(* LlmSpec is the retry loop of call_llm / transcribe_audio                *)
(* (tools/pipeline/common/llm.py); PipeSpec is the run / stop handlers and *)
(* the batch worker writing test.json; RagSpec is HybridRetriever.retrieve *)
(* over the vector store.                                                  *)
(***************************************************************************)
EXTENDS Integers, Sequences, FiniteSets, TLC

----------------------------------------------------------------------------
(* Bounds of the model *)

MaxKeys == 2
MaxModels == 2

KeyUniverse == <<"k1", "k2", "k3", "k4">>
LabelUniverse == <<"Key 1", "Key 2", "Key 3", "Key 4">>
ModelUniverse == <<"m1", "m2", "m3", "m4">>

Threads == {"t1", "t2"}
NoThread == "none"

\* provider names that can occur; "claude" is never seeded from the environment
ProviderNames == {"google", "openai", "claude"}
Absent == "<absent>"

----------------------------------------------------------------------------
(* Input domains *)

Reverse(s) == [i \in 1..Len(s) |-> s[Len(s) + 1 - i]]

\* key lists of the shape [{key, label}], distinct key values, labelled by position
LabelledKeys(s) == IF Len(s) = 0 THEN <<>>
                   ELSE [i \in 1..Len(s) |-> [key |-> s[i], label |-> LabelUniverse[i]]]

\* the first n keys of the universe, and the first two keys in swapped order
KeyLists == {LabelledKeys(SubSeq(KeyUniverse, 1, n)) : n \in 0..MaxKeys}
            \cup {LabelledKeys(Reverse(SubSeq(KeyUniverse, 1, 2)))}

ModelLists == {SubSeq(ModelUniverse, 1, n) : n \in 0..MaxModels}

\* the pools of the providers other than google are one key and one model
SecondaryKeyLists == {LabelledKeys(<<"k1">>)}
SecondaryModelLists == {<<"m1">>}

KeyListsOf(name) == IF name = "google" THEN KeyLists ELSE SecondaryKeyLists
ModelListsOf(name) == IF name = "google" THEN ModelLists ELSE SecondaryModelLists

\* one entry of settings["providers"]
ProviderData == UNION {[name : {n}, keys : KeyListsOf(n), models : ModelListsOf(n)]
                       : n \in ProviderNames}

\* the settings dict given to update_settings: a call that only selects the active
\* provider, or a call that names one provider and carries no selection or the
\* selection "google" (the default of the LLMSettings schema)
SettingsInputs ==
    [active_provider : ProviderNames \cup {Absent}, providers : {<<>>}]
    \cup {[active_provider |-> a, providers |-> <<pd>>] :
              a \in {Absent, "google"}, pd \in ProviderData}

NoSettings == [active_provider |-> Absent, providers |-> <<>>]

NoCall == [op |-> "none"]

NoRequest == [pc |-> "none"]

NoText == [pc |-> "none"]

\* active_process = None
NoProcess == 0

\* threads of the server's pool that execute the synchronous handlers
Handlers == {"h1", "h2"}

IdleHandler == [pc |-> "idle", p |-> NoProcess, response |-> "none"]

\* test.json does not exist
NoFile == [state |-> "missing", questions |-> <<>>]

\* the collection keys of the vector store
Collections == {"system", "toeic", "user"}

NoRetrieval == [op |-> "none"]

NoIndexing == [op |-> "none"]

NoResponse == [op |-> "none"]

----------------------------------------------------------------------------
VARIABLES
    providers,          \* self.providers: name -> {keys, models, key_idx, model_idx}
    active_provider,    \* self.active_provider
    rotation_callback,  \* self.rotation_callback: "none" or "set"
    lock,               \* RotationManager._lock: the holding thread or NoThread
    pc,                 \* position of each thread inside the manager
    llm_providers,      \* table llm_providers: name -> row
    llm_keys,           \* table llm_keys: provider name -> rows in id order
    cycle_calls,        \* rotate() calls on the active pool since it last stood at (0,0)
                        \* by a false return, a settings change or a load; -1 if unknown
    last,               \* the most recent call and what it returned ("pending": not yet)
    call,               \* per thread, the call it is executing step by step inside
                        \* the manager (its arguments and the state it found), or NoCall
    request,            \* the call_llm / transcribe_audio call in progress: its arguments,
                        \* its position in the retry loop and what it has done so far
    parsed,             \* the text given to safe_parse_json, the document it was made
                        \* from and what the call returned
    active_process,     \* pipeline.py: the global active_process (a worker or NoProcess)
    workers,            \* the worker processes started so far, in order of start
    handlers,           \* the run / stop request each server thread is handling
    test_json,          \* data/tests/<test_id>/test.json as it is on disk
    persisted,          \* the question list of the last completed persist step
    store,              \* the vector store: collection -> documents
    retrieval,          \* what the last retrieve() call was given and returned
    corpus,             \* data/tests/<test_id>/test.json as the indexer reads it: the
                        \* questions of its part
    clock,              \* datetime.now()
    indexing,           \* what the last index_test / analyze_user_result call
                        \* synthesized and stored
    rag_response,       \* the RAGResponse the last chat / explain_question returned
    replica,            \* the rotation_manager of the worker process
    log_queue,          \* the multiprocessing.Queue between worker and server
    active_log_queues,  \* client_id -> the asyncio.Queue of one observer
    main_loop,          \* the callbacks handed to the event loop and not yet run
    broadcasts,         \* the calls of broadcast_log so far: message and the
                        \* observers registered when it was called
    current_run,        \* the dict current_run of the pipeline router
    last_completed      \* the dict last_completed of the pipeline router

managerVars == <<providers, active_provider, rotation_callback, lock, pc,
                 llm_providers, llm_keys, cycle_calls, last, call>>
pipeVars == <<active_process, workers, handlers, test_json, persisted>>
indexVars == <<corpus, clock, indexing>>
ragVars == <<store, retrieval, indexVars, rag_response>>

\* the state outside the rotation manager
llmVars == <<request, parsed>>
procVars == <<replica>>
logVars == <<log_queue, active_log_queues, main_loop, broadcasts>>
runVars == <<current_run, last_completed>>
clientVars == <<llmVars, pipeVars, ragVars, procVars, logVars, runVars>>

\* the state outside the retry loop and the manager, outside the batch pipeline,
\* outside the vector store with its retriever and indexers, and outside the
\* knowledge base as a whole
outsideLlm == <<parsed, pipeVars, ragVars, procVars, logVars, runVars>>
outsideParse == <<managerVars, request, pipeVars, ragVars, procVars, logVars, runVars>>
outsidePipe == <<managerVars, llmVars, ragVars, procVars, logVars, runVars>>
outsideRag == <<managerVars, llmVars, pipeVars, rag_response, procVars, logVars, runVars>>
outsideChain == <<managerVars, llmVars, pipeVars, procVars, logVars, runVars>>
outsideProc == <<llmVars, pipeVars, ragVars, logVars, runVars>>
outsideLog == <<managerVars, llmVars, pipeVars, ragVars, procVars, runVars>>
outsideRun == <<managerVars, llmVars, ragVars, procVars, log_queue, broadcasts,
                handlers, test_json, persisted>>

vars == <<providers, active_provider, rotation_callback, lock, pc,
          llm_providers, llm_keys, cycle_calls, last, call, clientVars>>

----------------------------------------------------------------------------
(* The pool dict of one provider *)

Pool(keys, models, key_idx, model_idx) ==
    [keys |-> keys, models |-> models, key_idx |-> key_idx, model_idx |-> model_idx]

Put(f, k, v) == [x \in DOMAIN f \cup {k} |-> IF x = k THEN v ELSE f[x]]

EmptyMap == [x \in {} |-> 0]

\* the websockets that connect to /pipeline/logs, in the order of their ids
Clients == <<"c1", "c2">>

\* a websocket that has not connected yet
NoObserver == [state |-> "none", queue |-> <<>>, sent |-> <<>>]

\* current_run = {"running": False, "test_id": None, "part": None, "logs": []}
NoRun == [running |-> FALSE, test_id |-> "None", part |-> 0, logs |-> <<>>]

\* last_completed = {"test_id": None, "part": None, "completed_at": None}
NoCompleted == [test_id |-> "None", part |-> 0, status |-> "None"]

\* no worker process is running
NoReplica == [state |-> "none", providers |-> EmptyMap, active_provider |-> Absent,
              rotation_callback |-> "none", calls |-> 0]

----------------------------------------------------------------------------
(* _save_to_db *)

KeyVals(keys) == {keys[i].key : i \in 1..Len(keys)}

\* label of the last entry of data["keys"] whose key is val
LastLabel(keys, val) ==
    LET idx == {i \in 1..Len(keys) : keys[i].key = val}
        top == CHOOSE i \in idx : \A j \in idx : j <= i
    IN keys[top].label

\* the row existing_keys_map points to for a value is the last row holding it
IsMapped(rows, i) == \A j \in (i + 1)..Len(rows) : rows[j].key_value # rows[i].key_value

RECURSIVE NewKeyRows(_, _)
NewKeyRows(keys, existing_vals) ==
    IF Len(keys) = 0 THEN <<>>
    ELSE LET k == Head(keys) IN
         (IF k.key \in existing_vals THEN <<>>
          ELSE <<[key_value |-> k.key, label |-> k.label]>>)
         \o NewKeyRows(Tail(keys), existing_vals)

\* the llm_keys rows of one provider after the key sync of _save_to_db
SyncKeys(rows, keys) ==
    LET existing_vals == {rows[i].key_value : i \in 1..Len(rows)}
        relabelled == [i \in 1..Len(rows) |->
                         IF rows[i].key_value \in KeyVals(keys) /\ IsMapped(rows, i)
                         THEN [rows[i] EXCEPT !.label = LastLabel(keys, rows[i].key_value)]
                         ELSE rows[i]]
        kept == SelectSeq(relabelled, LAMBDA r : r.key_value \in KeyVals(keys))
    IN kept \o NewKeyRows(keys, existing_vals)

ProviderRow(name, data, active) ==
    [is_active |-> (name = active),
     models |-> data.models,
     current_key_idx |-> data.key_idx,
     current_model_idx |-> data.model_idx]

SaveProviders(provs, active, table) ==
    [n \in DOMAIN table \cup DOMAIN provs |->
        IF n \in DOMAIN provs THEN ProviderRow(n, provs[n], active) ELSE table[n]]

SaveKeys(provs, table) ==
    [n \in DOMAIN table \cup DOMAIN provs |->
        IF n \in DOMAIN provs
        THEN SyncKeys(IF n \in DOMAIN table THEN table[n] ELSE <<>>, provs[n].keys)
        ELSE table[n]]

----------------------------------------------------------------------------
(* _load_config, database branch *)

LoadedKeys(rows) ==
    IF Len(rows) = 0 THEN <<>>
    ELSE [i \in 1..Len(rows) |-> [key |-> rows[i].key_value, label |-> rows[i].label]]

LoadProviders(ptable, ktable) ==
    [n \in DOMAIN ptable |->
        Pool(LoadedKeys(ktable[n]), ptable[n].models,
             ptable[n].current_key_idx, ptable[n].current_model_idx)]

LoadActive(ptable) ==
    IF \E n \in DOMAIN ptable : ptable[n].is_active
    THEN CHOOSE n \in DOMAIN ptable : ptable[n].is_active
    ELSE "google"

----------------------------------------------------------------------------
(* rotate: the cursor step *)

\* variants of the cursor step: key cursor first; no reset of the key cursor on
\* exhaustion; no reset of the model cursor on a key advance
AdvanceCursorsKeyFirst(p) ==
    LET k == p.key_idx + 1 IN
    IF k >= Len(p.keys)
    THEN LET m == p.model_idx + 1 IN
         IF m >= Len(p.models)
         THEN [pool |-> [p EXCEPT !.model_idx = 0, !.key_idx = 0], advanced |-> FALSE]
         ELSE [pool |-> [p EXCEPT !.model_idx = m, !.key_idx = 0], advanced |-> TRUE]
    ELSE [pool |-> [p EXCEPT !.key_idx = k], advanced |-> TRUE]

AdvanceCursorsNoKeyReset(p) ==
    LET m == p.model_idx + 1 IN
    IF m >= Len(p.models)
    THEN LET k == p.key_idx + 1 IN
         IF k >= Len(p.keys)
         THEN [pool |-> [p EXCEPT !.model_idx = 0], advanced |-> FALSE]
         ELSE [pool |-> [p EXCEPT !.model_idx = 0, !.key_idx = k], advanced |-> TRUE]
    ELSE [pool |-> [p EXCEPT !.model_idx = m], advanced |-> TRUE]

AdvanceCursorsNoModelReset(p) ==
    LET m == p.model_idx + 1 IN
    IF m >= Len(p.models)
    THEN LET k == p.key_idx + 1 IN
         IF k >= Len(p.keys)
         THEN [pool |-> [p EXCEPT !.model_idx = 0, !.key_idx = 0], advanced |-> FALSE]
         ELSE [pool |-> [p EXCEPT !.model_idx = m, !.key_idx = k], advanced |-> TRUE]
    ELSE [pool |-> [p EXCEPT !.model_idx = m], advanced |-> TRUE]

AdvanceCursors(p) ==
    LET m == p.model_idx + 1 IN
    IF m >= Len(p.models)
    THEN LET k == p.key_idx + 1 IN
         IF k >= Len(p.keys)
         THEN [pool |-> [p EXCEPT !.model_idx = 0, !.key_idx = 0], advanced |-> FALSE]
         ELSE [pool |-> [p EXCEPT !.model_idx = 0, !.key_idx = k], advanced |-> TRUE]
    ELSE [pool |-> [p EXCEPT !.model_idx = m], advanced |-> TRUE]

\* variant: a pool without keys is rotated like any other
UnusableIfMissing(provs, active) == active \notin DOMAIN provs

\* if self.active_provider not in self.providers or not p["keys"]: return False
Unusable(provs, active) == active \notin DOMAIN provs \/ Len(provs[active].keys) = 0

AtOrigin(provs, active) ==
    /\ active \in DOMAIN provs
    /\ provs[active].key_idx = 0
    /\ provs[active].model_idx = 0

----------------------------------------------------------------------------
(* update_settings: the loop over settings["providers"] *)

\* variant: the bound test off by one
ClampIdxOffByOne(idx, list) == IF idx > Len(list) THEN 0 ELSE idx

ClampIdx(idx, list) == IF idx >= Len(list) THEN 0 ELSE idx

UpdatedPool(provs, p_data) ==
    LET has == p_data.name \in DOMAIN provs
        key_idx == IF has THEN provs[p_data.name].key_idx ELSE 0
        model_idx == IF has THEN provs[p_data.name].model_idx ELSE 0
    IN Pool(p_data.keys, p_data.models,
            ClampIdx(key_idx, p_data.keys), ClampIdx(model_idx, p_data.models))

RECURSIVE ApplyProviders(_, _)
ApplyProviders(provs, plist) ==
    IF Len(plist) = 0 THEN provs
    ELSE ApplyProviders(Put(provs, Head(plist).name, UpdatedPool(provs, Head(plist))),
                        Tail(plist))

\* variant: the selection of the call is dropped
NewActiveKept(active, settings) == active

NewActive(active, settings) ==
    IF settings.active_provider = Absent THEN active ELSE settings.active_provider

----------------------------------------------------------------------------
(* get_current / get_active_resource_desc *)

Capitalize(name) ==
    CASE name = "google" -> "Google"
      [] name = "openai" -> "Openai"
      [] name = "claude" -> "Claude"
      [] OTHER -> name

InRange(idx, list) == idx >= 0 /\ idx < Len(list)

\* variant: the first key is returned whatever the key cursor
CurrentOutcomeFirstKey(provs, active) ==
    IF active \notin DOMAIN provs
    THEN [ret |-> "error: provider not configured", cred |-> <<>>]
    ELSE LET p == provs[active] IN
         IF Len(p.keys) = 0
         THEN [ret |-> "error: no api keys configured", cred |-> <<>>]
         ELSE IF ~InRange(p.key_idx, p.keys) \/ ~InRange(p.model_idx, p.models)
         THEN [ret |-> "error: IndexError", cred |-> <<>>]
         ELSE [ret |-> "credential",
               cred |-> <<p.keys[1].key, p.models[p.model_idx + 1], p.keys[1].label>>]

\* what get_current returns or raises
CurrentOutcome(provs, active) ==
    IF active \notin DOMAIN provs
    THEN [ret |-> "error: provider not configured", cred |-> <<>>]
    ELSE LET p == provs[active] IN
         IF Len(p.keys) = 0
         THEN [ret |-> "error: no api keys configured", cred |-> <<>>]
         ELSE IF ~InRange(p.key_idx, p.keys) \/ ~InRange(p.model_idx, p.models)
         THEN [ret |-> "error: IndexError", cred |-> <<>>]
         ELSE [ret |-> "credential",
               cred |-> <<p.keys[p.key_idx + 1].key,
                          p.models[p.model_idx + 1],
                          p.keys[p.key_idx + 1].label>>]

\* what get_active_resource_desc returns or raises
DescOutcome(provs, active) ==
    IF active \notin DOMAIN provs
    THEN [ret |-> "desc: unknown provider", cred |-> <<active>>]
    ELSE LET p == provs[active] IN
         IF Len(p.keys) = 0
         THEN [ret |-> "desc: no keys", cred |-> <<Capitalize(active)>>]
         ELSE IF ~InRange(p.key_idx, p.keys) \/ ~InRange(p.model_idx, p.models)
         THEN [ret |-> "error: IndexError", cred |-> <<>>]
         ELSE [ret |-> "desc",
               cred |-> <<Capitalize(active),
                          p.models[p.model_idx + 1],
                          p.keys[p.key_idx + 1].label>>]

----------------------------------------------------------------------------
(* The record of the most recently returned call *)

\* pre: the cursors (key_idx, model_idx) the call found, for rotate those of the
\* active provider, for update_settings those of the provider it names;
\* calls: for rotate, the value of cycle_calls counting this call (0 if unknown)
Returned(op, ret, cred, pre, settings, cb, calls) ==
    [op |-> op, ret |-> ret, cred |-> cred, pre |-> pre,
     settings |-> settings, callbacks |-> cb, calls |-> calls]

----------------------------------------------------------------------------
(* Init: __init__ on an empty database: seed from the environment and save *)

Init ==
    \E env_provider \in ProviderNames,
       google_keys \in KeyLists, google_models \in ModelLists,
       openai_keys \in SecondaryKeyLists, openai_models \in SecondaryModelLists :
        /\ providers = Put(Put(EmptyMap, "google", Pool(google_keys, google_models, 0, 0)),
                           "openai", Pool(openai_keys, openai_models, 0, 0))
        /\ active_provider = env_provider
        /\ rotation_callback = "none"
        /\ lock = NoThread
        /\ pc = [t \in Threads |-> "idle"]
        /\ llm_providers = SaveProviders(providers, active_provider, EmptyMap)
        /\ llm_keys = SaveKeys(providers, EmptyMap)
        /\ cycle_calls = IF AtOrigin(providers, active_provider) THEN 0 ELSE -1
        /\ last = [op |-> "init", ret |-> "ok", cred |-> <<>>,
                   pre |-> <<>>, settings |-> NoSettings, callbacks |-> 0, calls |-> 0]
        /\ call = [t \in Threads |-> NoCall]
        /\ request = NoRequest
        /\ parsed = NoText
        /\ active_process = NoProcess
        /\ workers = <<>>
        /\ handlers = [h \in Handlers |-> IdleHandler]
        /\ test_json = NoFile
        /\ persisted = <<>>
        /\ store = [c \in Collections |-> {}]
        /\ retrieval = NoRetrieval
        /\ corpus = <<>>
        /\ clock = 0
        /\ indexing = NoIndexing
        /\ rag_response = NoResponse
        /\ replica = NoReplica
        /\ log_queue = <<>>
        /\ active_log_queues = [i \in 1..Len(Clients) |-> NoObserver]
        /\ main_loop = <<>>
        /\ broadcasts = <<>>
        /\ current_run = NoRun
        /\ last_completed = NoCompleted

----------------------------------------------------------------------------
(* Actions *)

\* the cursors update_settings finds for the provider the call names
PreCursors(provs, settings) ==
    IF Len(settings.providers) = 0 THEN <<>>
    ELSE LET n == settings.providers[1].name IN
         IF n \in DOMAIN provs THEN <<provs[n].key_idx, provs[n].model_idx>> ELSE <<>>

IdleThreads == {t \in Threads : pc[t] = "idle"}

\* set_rotation_callback(fn): no lock is taken
SetRotationCallback ==
    /\ rotation_callback = "none"
    /\ rotation_callback' = "set"
    /\ UNCHANGED <<providers, active_provider, lock, pc, llm_providers, llm_keys,
                   cycle_calls, last, call>>
    /\ UNCHANGED clientVars

\* rotate(reason), from taking the lock up to its return or up to the
\* evaluation of the callback argument
RotateCall(t) ==
    /\ pc[t] = "idle"
    /\ lock = NoThread
    /\ UNCHANGED call
    /\ IF Unusable(providers, active_provider)
       THEN /\ last' = Returned("rotate", "false", <<>>, <<>>, NoSettings, 0, 0)
            /\ UNCHANGED <<providers, active_provider, rotation_callback, lock, pc,
                           llm_providers, llm_keys, cycle_calls>>
       ELSE LET p == providers[active_provider]
                r == AdvanceCursors(p)
                pre == <<p.key_idx, p.model_idx>>
                calls == IF cycle_calls = -1 THEN 0 ELSE cycle_calls + 1
            IN /\ providers' = [providers EXCEPT ![active_provider] = r.pool]
               /\ llm_providers' = SaveProviders(providers', active_provider, llm_providers)
               /\ llm_keys' = SaveKeys(providers', llm_keys)
               /\ UNCHANGED <<active_provider, rotation_callback>>
               /\ IF ~r.advanced
                  THEN /\ last' = Returned("rotate", "false", <<>>, pre, NoSettings, 0, calls)
                       /\ cycle_calls' = 0
                       /\ UNCHANGED <<lock, pc>>
                  ELSE /\ cycle_calls' = IF cycle_calls = -1 THEN -1 ELSE cycle_calls + 1
                       /\ IF rotation_callback = "none"
                          THEN /\ last' = Returned("rotate", "true", <<>>, pre,
                                                   NoSettings, 0, calls)
                               /\ UNCHANGED <<lock, pc>>
                          ELSE /\ last' = Returned("rotate", "pending", <<>>, pre,
                                                   NoSettings, 0, calls)
                               /\ lock' = t
                               /\ pc' = [pc EXCEPT ![t] = "rotate_callback"]

\* rotate(reason) called by a client other than the retry loop of llm.py
Rotate(t) == RotateCall(t) /\ UNCHANGED clientVars

\* get_active_resource_desc(), called by a client or from rotate for the callback
GetActiveResourceDesc(t) ==
    /\ lock = NoThread
    /\ pc[t] \in {"idle", "rotate_callback"}
    /\ LET d == DescOutcome(providers, active_provider) IN
       IF pc[t] = "idle"
       THEN /\ last' = Returned("get_active_resource_desc", d.ret, d.cred, <<>>,
                                NoSettings, 0, 0)
            /\ UNCHANGED <<lock, pc>>
       ELSE \* rotation_callback(desc) runs, what it raises is swallowed, rotate returns True
            /\ last' = Returned("rotate", "true", d.cred, last.pre, NoSettings, 1, last.calls)
            /\ lock' = NoThread
            /\ pc' = [pc EXCEPT ![t] = "idle"]
    /\ UNCHANGED <<providers, active_provider, rotation_callback, llm_providers,
                   llm_keys, cycle_calls, call>>
    /\ UNCHANGED clientVars

\* get_current(), called by a thread that is not inside the manager
GetCurrent ==
    /\ IdleThreads # {}
    /\ lock = NoThread
    /\ LET c == CurrentOutcome(providers, active_provider) IN
       last' = Returned("get_current", c.ret, c.cred, <<>>, NoSettings, 0, 0)
    /\ UNCHANGED <<providers, active_provider, rotation_callback, lock, pc,
                   llm_providers, llm_keys, cycle_calls, call>>
    /\ UNCHANGED clientVars

\* update_settings(settings), called by a thread that is not inside the manager
UpdateSettingsOf(inputs) ==
    /\ IdleThreads # {}
    /\ lock = NoThread
    /\ \E settings \in inputs :
        /\ active_provider' = NewActive(active_provider, settings)
        /\ providers' = ApplyProviders(providers, settings.providers)
        /\ llm_providers' = SaveProviders(providers', active_provider', llm_providers)
        /\ llm_keys' = SaveKeys(providers', llm_keys)
        /\ cycle_calls' = IF AtOrigin(providers', active_provider') THEN 0 ELSE -1
        /\ last' = Returned("update_settings", "ok", <<>>, PreCursors(providers, settings), settings, 0, 0)
    /\ UNCHANGED <<rotation_callback, lock, pc, call>>

UpdateSettings == UpdateSettingsOf(SettingsInputs) /\ UNCHANGED clientVars

\* the process ends and a new one constructs the manager from the database
Restart ==
    /\ providers' = LoadProviders(llm_providers, llm_keys)
    /\ active_provider' = LoadActive(llm_providers)
    /\ rotation_callback' = "none"
    /\ lock' = NoThread
    /\ pc' = [t \in Threads |-> "idle"]
    /\ cycle_calls' = IF AtOrigin(providers', active_provider') THEN 0 ELSE -1
    /\ last' = Returned("restart", "ok", <<>>, <<>>, NoSettings, 0, 0)
    /\ call' = [t \in Threads |-> NoCall]
    /\ UNCHANGED <<llm_providers, llm_keys>>
    /\ UNCHANGED clientVars

Next ==
    \/ SetRotationCallback
    \/ \E t \in Threads : Rotate(t)
    \/ \E t \in Threads : GetActiveResourceDesc(t)
    \/ GetCurrent
    \/ UpdateSettings
    \/ Restart

Spec == Init /\ [][Next]_vars

\* a thread inside rotate or get_active_resource_desc eventually gets the lock it
\* waits for when the lock is free: the scheduler runs every runnable thread
FairSpec ==
    /\ Init
    /\ [][Next]_vars
    /\ \A t \in Threads : WF_vars(Rotate(t)) /\ WF_vars(GetActiveResourceDesc(t))

----------------------------------------------------------------------------
(* The same calls statement by statement: what another thread can see while *)
(* one thread is inside update_settings or rotate                           *)

\* variant: the with-statement does not wait for the lock
CanAcquireAlways(l) == TRUE

\* with self._lock: the statement is entered when no thread holds the lock
CanAcquire(l) == l = NoThread

Snapshot == [providers |-> providers, active_provider |-> active_provider]

InCall(op, settings, rest) ==
    [op |-> op, settings |-> settings, rest |-> rest, before |-> Snapshot]

\* the settings of the calls followed statement by statement: a selection only,
\* or one provider's pool together with the selection "google"
StepSettings ==
    {s \in SettingsInputs : Len(s.providers) = 0 \/ s.active_provider = "google"}

\* the return of a call of thread t that holds the lock
Release(t) ==
    /\ lock' = NoThread
    /\ pc' = [pc EXCEPT ![t] = "idle"]
    /\ call' = [call EXCEPT ![t] = NoCall]
    /\ cycle_calls' = -1

\* update_settings: with self._lock
UpdateSettingsEnter(t) ==
    /\ pc[t] = "idle"
    /\ CanAcquire(lock)
    /\ \E settings \in StepSettings :
          call' = [call EXCEPT ![t] = InCall("update_settings", settings, settings.providers)]
    /\ lock' = t
    /\ pc' = [pc EXCEPT ![t] = "us_active"]
    /\ UNCHANGED <<providers, active_provider, rotation_callback, llm_providers,
                   llm_keys, cycle_calls, last>>
    /\ UNCHANGED clientVars

\* self.active_provider = settings.get("active_provider", self.active_provider)
UpdateSettingsActive(t) ==
    /\ pc[t] = "us_active"
    /\ active_provider' = NewActive(active_provider, call[t].settings)
    /\ pc' = [pc EXCEPT ![t] = "us_loop"]
    /\ UNCHANGED <<providers, rotation_callback, lock, llm_providers, llm_keys,
                   cycle_calls, last, call>>
    /\ UNCHANGED clientVars

\* one pass of the loop over settings["providers"]
UpdateSettingsLoop(t) ==
    /\ pc[t] = "us_loop"
    /\ Len(call[t].rest) > 0
    /\ LET p_data == Head(call[t].rest) IN
       providers' = Put(providers, p_data.name, UpdatedPool(providers, p_data))
    /\ call' = [call EXCEPT ![t].rest = Tail(call[t].rest)]
    /\ UNCHANGED <<active_provider, rotation_callback, lock, pc, llm_providers,
                   llm_keys, cycle_calls, last>>
    /\ UNCHANGED clientVars

\* self._save_to_db() and the end of the with-statement
UpdateSettingsSave(t) ==
    /\ pc[t] = "us_loop"
    /\ Len(call[t].rest) = 0
    /\ llm_providers' = SaveProviders(providers, active_provider, llm_providers)
    /\ llm_keys' = SaveKeys(providers, llm_keys)
    /\ last' = Returned("update_settings", "ok", <<>>, <<>>, NoSettings, 0, 0)
    /\ Release(t)
    /\ UNCHANGED <<providers, active_provider, rotation_callback>>
    /\ UNCHANGED clientVars

\* rotate: with self._lock, and the early return on an unusable pool
RotateEnter(t) ==
    /\ pc[t] = "idle"
    /\ CanAcquire(lock)
    /\ IF Unusable(providers, active_provider)
       THEN /\ last' = Returned("rotate", "false", <<>>, <<>>, NoSettings, 0, 0)
            /\ UNCHANGED <<lock, pc, call>>
       ELSE /\ lock' = t
            /\ pc' = [pc EXCEPT ![t] = "ro_model"]
            /\ call' = [call EXCEPT ![t] = InCall("rotate", NoSettings, <<>>)]
            /\ UNCHANGED last
    /\ UNCHANGED <<providers, active_provider, rotation_callback, llm_providers,
                   llm_keys, cycle_calls>>
    /\ UNCHANGED clientVars

\* p["model_idx"] += 1 and the test of the model cursor
RotateModel(t) ==
    /\ pc[t] = "ro_model"
    /\ LET p == providers[active_provider] IN
       /\ providers' = [providers EXCEPT ![active_provider].model_idx = p.model_idx + 1]
       /\ pc' = [pc EXCEPT ![t] = IF p.model_idx + 1 >= Len(p.models)
                                  THEN "ro_wrap" ELSE "ro_save"]
    /\ UNCHANGED <<active_provider, rotation_callback, lock, llm_providers, llm_keys,
                   cycle_calls, last, call>>
    /\ UNCHANGED clientVars

\* p["model_idx"] = 0; p["key_idx"] += 1 and the test of the key cursor
RotateWrap(t) ==
    /\ pc[t] = "ro_wrap"
    /\ LET p == providers[active_provider] IN
       /\ providers' = [providers EXCEPT ![active_provider].model_idx = 0,
                                         ![active_provider].key_idx = p.key_idx + 1]
       /\ pc' = [pc EXCEPT ![t] = IF p.key_idx + 1 >= Len(p.keys)
                                  THEN "ro_reset" ELSE "ro_save"]
    /\ UNCHANGED <<active_provider, rotation_callback, lock, llm_providers, llm_keys,
                   cycle_calls, last, call>>
    /\ UNCHANGED clientVars

\* p["key_idx"] = 0; self._save_to_db(); return False
RotateReset(t) ==
    /\ pc[t] = "ro_reset"
    /\ providers' = [providers EXCEPT ![active_provider].key_idx = 0]
    /\ llm_providers' = SaveProviders(providers', active_provider, llm_providers)
    /\ llm_keys' = SaveKeys(providers', llm_keys)
    /\ LET b == call[t].before.providers[call[t].before.active_provider] IN
       last' = Returned("rotate", "false", <<>>, <<b.key_idx, b.model_idx>>,
                        NoSettings, 0, 0)
    /\ Release(t)
    /\ UNCHANGED <<active_provider, rotation_callback>>
    /\ UNCHANGED clientVars

\* self._save_to_db(); return True when no callback is registered, otherwise the
\* evaluation of the callback argument, which waits for the lock this thread holds
RotateSave(t) ==
    /\ pc[t] = "ro_save"
    /\ llm_providers' = SaveProviders(providers, active_provider, llm_providers)
    /\ llm_keys' = SaveKeys(providers, llm_keys)
    /\ LET b == call[t].before.providers[call[t].before.active_provider]
           pre == <<b.key_idx, b.model_idx>>
       IN IF rotation_callback = "none"
          THEN /\ last' = Returned("rotate", "true", <<>>, pre, NoSettings, 0, 0)
               /\ Release(t)
          ELSE /\ last' = Returned("rotate", "pending", <<>>, pre, NoSettings, 0, 0)
               /\ pc' = [pc EXCEPT ![t] = "rotate_callback"]
               /\ UNCHANGED <<lock, call, cycle_calls>>
    /\ UNCHANGED <<providers, active_provider, rotation_callback>>
    /\ UNCHANGED clientVars

\* get_pipeline_config: the handler reads the pool of the active provider from
\* rotation_manager.providers without taking the lock
GetPipelineConfig ==
    /\ active_provider \in DOMAIN providers
    /\ LET p == providers[active_provider] IN
       last' = Returned("get_pipeline_config", "ok", <<>>, <<p.key_idx, p.model_idx>>,
                        NoSettings, 0, 0)
    /\ UNCHANGED <<providers, active_provider, rotation_callback, lock, pc,
                   llm_providers, llm_keys, cycle_calls, call>>
    /\ UNCHANGED clientVars

StepNext ==
    \/ SetRotationCallback
    \/ \E t \in Threads : UpdateSettingsEnter(t)
    \/ \E t \in Threads : UpdateSettingsActive(t)
    \/ \E t \in Threads : UpdateSettingsLoop(t)
    \/ \E t \in Threads : UpdateSettingsSave(t)
    \/ \E t \in Threads : RotateEnter(t)
    \/ \E t \in Threads : RotateModel(t)
    \/ \E t \in Threads : RotateWrap(t)
    \/ \E t \in Threads : RotateReset(t)
    \/ \E t \in Threads : RotateSave(t)
    \/ GetCurrent
    \/ GetPipelineConfig

StepSpec == Init /\ [][StepNext]_vars

----------------------------------------------------------------------------
(* call_llm / transcribe_audio: the retry loop around one provider call      *)
(* (tools/pipeline/common/llm.py)                                            *)

MaxRetries == 5

\* seconds of wait per attempt number in the exhausted branch
BackoffUnit == 20

\* the thread that runs the batch and calls call_llm / transcribe_audio
Caller == "t1"

\* values of the retries argument
RetriesInputs == {0, 1, MaxRetries}

\* an error message is the sequence of its lower-cased fragments
RotatableSignatures ==
    {"429", "quota", "503", "500", "404", "not found", "403", "forbidden",
     "400", "invalid_argument", "modality"}

QuotaError == <<"429", "resource has been exhausted">>
AuthError == <<"401", "unauthorized">>
ParseError == <<"expecting value">>
NotConfiguredError == <<"provider", "not configured">>
NoKeysError == <<"no api keys configured">>
IndexError == <<"list index out of range">>

\* what the provider's call() returns or raises: a response text (a document, the
\* document in a fence, with a trailing comma, between prose, and prose alone),
\* or an exception by its message
ResponseTexts ==
    {<<"{", "\"", "a", "\"", ":", "1", "}">>,
     <<"<fence>", "json", " ", "{", "\"", "a", "\"", ":", "1", "}", " ", "<fence>">>,
     <<"{", "\"", "a", "\"", ":", "1", ",", "}">>,
     <<"a", " ", "{", "\"", "a", "\"", ":", "1", "}", " ", "a">>,
     <<"a", " ", "a">>}
ProviderOutcomes ==
    [kind : {"text"}, text : ResponseTexts, msg : {<<>>}]
    \cup [kind : {"error"}, text : {<<>>}, msg : {QuotaError, AuthError}]

\* A text is the sequence of its symbols: the characters { } [ ] , : " 1 a and
\* the space, with the fence of three backquotes and the word json as one symbol
\* each
Fence == "<fence>"
Quote == "\""

IsSpace(c) == c = " "

RECURSIVE SkipSpace(_, _)
SkipSpace(text, i) ==
    IF i <= Len(text) /\ IsSpace(text[i]) THEN SkipSpace(text, i + 1) ELSE i

\* the first index from i on that holds the symbol c, or 0
RECURSIVE Find(_, _, _)
Find(text, c, i) ==
    IF i > Len(text) THEN 0
    ELSE IF text[i] = c THEN i
    ELSE Find(text, c, i + 1)

\* the last index up to i that holds the symbol c, or 0
RECURSIVE RFind(_, _, _)
RFind(text, c, i) ==
    IF i < 1 THEN 0
    ELSE IF text[i] = c THEN i
    ELSE RFind(text, c, i - 1)

NotJson == [ok |-> FALSE, val |-> <<>>, next |-> 0]
JsonValue(val, next) == [ok |-> TRUE, val |-> val, next |-> next]

\* the JSON decoder: the value that starts at index i0 and the index after it
RECURSIVE ParseValue(_, _)
RECURSIVE ParseElements(_, _, _)
RECURSIVE ParseMembers(_, _, _)
ParseValue(text, i0) ==
    LET i == SkipSpace(text, i0) IN
    IF i > Len(text) THEN NotJson
    ELSE CASE text[i] = "1" -> JsonValue(<<"number", "1">>, i + 1)
           [] text[i] = Quote ->
                 LET j == Find(text, Quote, i + 1) IN
                 IF j = 0 THEN NotJson
                 ELSE JsonValue(<<"string", SubSeq(text, i + 1, j - 1)>>, j + 1)
           [] text[i] = "[" ->
                 LET k == SkipSpace(text, i + 1) IN
                 IF k <= Len(text) /\ text[k] = "]"
                 THEN JsonValue(<<"array", <<>> >>, k + 1)
                 ELSE ParseElements(text, i + 1, <<>>)
           [] text[i] = "{" ->
                 LET k == SkipSpace(text, i + 1) IN
                 IF k <= Len(text) /\ text[k] = "}"
                 THEN JsonValue(<<"object", <<>> >>, k + 1)
                 ELSE ParseMembers(text, i + 1, <<>>)
           [] OTHER -> NotJson

ParseElements(text, i, acc) ==
    LET v == ParseValue(text, i) IN
    IF ~v.ok THEN NotJson
    ELSE LET k == SkipSpace(text, v.next) IN
         IF k > Len(text) THEN NotJson
         ELSE IF text[k] = "," THEN ParseElements(text, k + 1, Append(acc, v.val))
         ELSE IF text[k] = "]" THEN JsonValue(<<"array", Append(acc, v.val)>>, k + 1)
         ELSE NotJson

ParseMembers(text, i, acc) ==
    LET n == SkipSpace(text, i) IN
    IF n > Len(text) \/ text[n] # Quote THEN NotJson
    ELSE LET name == ParseValue(text, n) IN
         IF ~name.ok THEN NotJson
         ELSE LET c == SkipSpace(text, name.next) IN
              IF c > Len(text) \/ text[c] # ":" THEN NotJson
              ELSE LET v == ParseValue(text, c + 1) IN
                   IF ~v.ok THEN NotJson
                   ELSE LET k == SkipSpace(text, v.next)
                            members == Append(acc, <<name.val, v.val>>)
                        IN IF k > Len(text) THEN NotJson
                           ELSE IF text[k] = "," THEN ParseMembers(text, k + 1, members)
                           ELSE IF text[k] = "}"
                           THEN JsonValue(<<"object", members>>, k + 1)
                           ELSE NotJson

Raised == [ok |-> FALSE, val |-> <<>>]
Loaded(val) == [ok |-> TRUE, val |-> val]

\* json.loads(text): the document, or an exception
JsonLoads(text) ==
    LET v == ParseValue(text, 1) IN
    IF v.ok /\ SkipSpace(text, v.next) > Len(text) THEN Loaded(v.val) ELSE Raised

\* text.strip() at the left and at the right
RECURSIVE RStrip(_)
RStrip(text) ==
    IF Len(text) > 0 /\ IsSpace(text[Len(text)])
    THEN RStrip(SubSeq(text, 1, Len(text) - 1)) ELSE text

LStrip(text) == SubSeq(text, SkipSpace(text, 1), Len(text))

\* re.search(r'<fence>(?:json)?\s*(.*?)\s*<fence>', text, re.DOTALL): group 1 of the
\* leftmost match, or the text when nothing matches
StripFence(text) ==
    LET open == Find(text, Fence, 1)
        close == IF open = 0 THEN 0 ELSE Find(text, Fence, open + 1)
    IN IF close = 0 THEN text
       ELSE LET inner == SubSeq(text, open + 1, close - 1)
                body == IF Len(inner) > 0 /\ inner[1] = "json" THEN Tail(inner) ELSE inner
            IN RStrip(LStrip(body))

\* re.sub(r',\s*([}\]])', r'\1', text)
RECURSIVE DropTrailingCommas(_)
DropTrailingCommas(text) ==
    IF Len(text) = 0 THEN <<>>
    ELSE LET k == SkipSpace(text, 2) IN
         IF text[1] = "," /\ k <= Len(text) /\ text[k] \in {"}", "]"}
         THEN DropTrailingCommas(SubSeq(text, k, Len(text)))
         ELSE <<text[1]>> \o DropTrailingCommas(Tail(text))

\* repaired[start:end+1] with start = repaired.find('{'), end = repaired.rfind('}'),
\* or nothing when there is no brace
SliceBraces(text) ==
    LET start == Find(text, "{", 1)
        end == RFind(text, "}", Len(text))
    IN IF start = 0 \/ end = 0 THEN <<>> ELSE SubSeq(text, start, end)

\* safe_parse_json: what it returns, or that it raises
SafeParseJson(text) ==
    LET direct == JsonLoads(text)
        inner == StripFence(text)
        fenced == IF inner = text THEN Raised ELSE JsonLoads(inner)
        repaired == DropTrailingCommas(inner)
    IN IF direct.ok THEN direct
       ELSE IF fenced.ok THEN fenced
       ELSE IF JsonLoads(repaired).ok THEN JsonLoads(repaired)
       ELSE JsonLoads(SliceBraces(repaired))

\* variant: every error is taken for a rotatable one
IsErrorRotatableAlways(msg) == TRUE

\* any(x in err_msg.lower() for x in [...])
IsErrorRotatable(msg) == \E i \in 1..Len(msg) : msg[i] \in RotatableSignatures

\* the message of what get_current raises
CurrentError(ret) ==
    CASE ret = "error: provider not configured" -> NotConfiguredError
      [] ret = "error: no api keys configured" -> NoKeysError
      [] OTHER -> IndexError

CursorOf(provs, active) ==
    IF active \in DOMAIN provs
    THEN <<provs[active].key_idx, provs[active].model_idx>>
    ELSE <<>>

NewRequest(fn, retries, validate_json) ==
    [pc |-> "loop", fn |-> fn, retries |-> retries, validate_json |-> validate_json,
     attempt |-> 0, invocations |-> 0, rotations |-> 0, episode |-> 0, visited |-> <<>>,
     sleeps |-> <<>>, errors |-> <<>>, start |-> CursorOf(providers, active_provider),
     outcome |-> "none"]

\* the function returns the response
Result(req) == [req EXCEPT !.pc = "done", !.outcome = "result"]

\* the function raises msg
Ended(req, outcome, msg) ==
    [req EXCEPT !.pc = "done", !.outcome = outcome, !.errors = Append(@, msg)]

\* variant: a non-rotatable error is retried like a rotatable one
HandledAlwaysRetry(req, msg) ==
    IF IsErrorRotatableAlways(msg) /\ req.attempt < req.retries - 1
    THEN [req EXCEPT !.pc = "rotate_error", !.errors = Append(@, msg)]
    ELSE Ended(req, "error", msg)

\* except Exception as e: rotate and go on, or raise e
Handled(req, msg) ==
    IF IsErrorRotatable(msg) /\ req.attempt < req.retries - 1
    THEN [req EXCEPT !.pc = "rotate_error", !.errors = Append(@, msg)]
    ELSE Ended(req, "error", msg)

\* the body of the try statement once the provider has answered with out
Answered(req, out) ==
    LET r == [req EXCEPT !.invocations = @ + 1] IN
    IF out.kind = "error" THEN Handled(r, out.msg)
    ELSE IF r.fn = "transcribe_audio" \/ ~r.validate_json THEN Result(r)
    ELSE IF SafeParseJson(out.text).ok THEN Result(r)
    ELSE IF r.attempt < r.retries - 1
    THEN [r EXCEPT !.pc = "rotate_parse", !.errors = Append(@, ParseError)]
    ELSE Handled(r, ParseError)

\* wait_time = (attempt + 1) * 20
WaitTime(attempt) == (attempt + 1) * BackoffUnit

\* the loop variable moves on: continue
Continue(req) == [req EXCEPT !.pc = "loop", !.attempt = @ + 1]

\* call_llm(...) or transcribe_audio(...) is called
CallBeginOf(inputs) ==
    /\ request.pc \in {"none", "done"}
    /\ pc[Caller] = "idle"
    /\ \E fn \in {"call_llm", "transcribe_audio"}, retries \in inputs,
          validate_json \in BOOLEAN :
          /\ fn = "transcribe_audio" => ~validate_json
          /\ request' = NewRequest(fn, retries, validate_json)
    /\ UNCHANGED <<providers, active_provider, rotation_callback, lock, pc,
                   llm_providers, llm_keys, cycle_calls, last, call>>

CallBegin == CallBeginOf(RetriesInputs) /\ UNCHANGED outsideLlm

\* for attempt in range(retries): the next pass, or the end of the function body
LoopTest ==
    /\ request.pc = "loop"
    /\ request' = IF request.attempt < request.retries
                  THEN [request EXCEPT !.pc = "try"]
                  ELSE [request EXCEPT !.pc = "done", !.outcome = "none"]
    /\ UNCHANGED <<providers, active_provider, rotation_callback, lock, pc,
                   llm_providers, llm_keys, cycle_calls, last, call>>
    /\ UNCHANGED outsideLlm

\* get_current(), the provider call, and the handling of what it returns or raises
Try ==
    /\ request.pc = "try"
    /\ LET c == CurrentOutcome(providers, active_provider) IN
       IF c.ret # "credential"
       THEN request' = Handled(request, CurrentError(c.ret))
       ELSE \E out \in ProviderOutcomes : request' = Answered(request, out)
    /\ UNCHANGED <<providers, active_provider, rotation_callback, lock, pc,
                   llm_providers, llm_keys, cycle_calls, last, call>>
    /\ UNCHANGED outsideLlm

\* episode: the failed attempts of this call since it began or last slept
Rotated(req) ==
    [req EXCEPT !.rotations = @ + 1, !.episode = @ + 1,
                !.visited = Append(@, CursorOf(providers', active_provider'))]

\* if rotation_manager.rotate(reason): continue; else: sleep(wait_time); continue
RotateAfterError ==
    /\ request.pc = "rotate_error"
    /\ RotateCall(Caller)
    /\ request' =
          CASE last'.ret = "true" -> Continue(Rotated(request))
            [] last'.ret = "false" ->
                  Continue([Rotated(request) EXCEPT
                               !.sleeps = Append(@, WaitTime(request.attempt)),
                               !.episode = 0])
            [] OTHER -> [Rotated(request) EXCEPT !.pc = "blocked"]
    /\ UNCHANGED outsideLlm

\* rotation_manager.rotate(reason="JSON Parsing Failure"); continue
RotateAfterParse ==
    /\ request.pc = "rotate_parse"
    /\ RotateCall(Caller)
    /\ request' =
          CASE last'.ret \in {"true", "false"} -> Continue(Rotated(request))
            [] OTHER -> [Rotated(request) EXCEPT !.pc = "blocked"]
    /\ UNCHANGED outsideLlm

LlmNext ==
    \/ SetRotationCallback
    \/ CallBegin
    \/ LoopTest
    \/ Try
    \/ RotateAfterError
    \/ RotateAfterParse

LlmSpec == Init /\ [][LlmNext]_vars

----------------------------------------------------------------------------
(* The batch pipeline: POST /pipeline/run and /pipeline/stop                *)
(* (backend/app/api/v1/pipeline.py), the worker process running run_batch   *)
(* (tools/pipeline/run_part2_batch.py) and test.json (common/io.py)         *)

\* audio files in the input directory
MaxUnits == 2

\* the worker processes that can be started in one lifetime of the server
WorkerIds == {1, 2}

\* question records process_part2 returns for one audio file
QuestionsPerUnit == {1, 2}

NewWorker == [alive |-> TRUE, pc |-> "load", i |-> 0, final_questions |-> <<>>]

\* load_progress: the questions of the part when the file exists and parses
LoadProgress(file) == IF file.state = "written" THEN file.questions ELSE <<>>

\* the records of audio file number unit (1-based) appended to the list
WithUnit(questions, unit, n) == questions \o [k \in 1..n |-> unit]

AliveWorkers == {w \in 1..Len(workers) : workers[w].alive}

IsAlive(p) == p # NoProcess /\ workers[p].alive

Respond(h, response) == [handlers EXCEPT ![h] = [IdleHandler EXCEPT !.response = response]]

\* run_pipeline: if active_process and active_process.is_alive(): return error
RunCheck(h) ==
    /\ handlers[h].pc = "idle"
    /\ Len(workers) + 1 \in WorkerIds
    /\ handlers' = IF IsAlive(active_process)
                   THEN Respond(h, "error: already running")
                   ELSE [handlers EXCEPT ![h] = [IdleHandler EXCEPT !.pc = "run_start"]]
    /\ UNCHANGED <<active_process, workers, test_json, persisted>>
    /\ UNCHANGED outsidePipe

\* p = multiprocessing.Process(...); p.start()
RunStart(h) ==
    /\ handlers[h].pc = "run_start"
    /\ Len(workers) + 1 \in WorkerIds
    /\ workers' = Append(workers, NewWorker)
    /\ handlers' = [handlers EXCEPT ![h].pc = "run_assign", ![h].p = Len(workers) + 1]
    /\ UNCHANGED <<active_process, test_json, persisted>>
    /\ UNCHANGED outsidePipe

\* active_process = p; return started
RunAssign(h) ==
    /\ handlers[h].pc = "run_assign"
    /\ active_process' = handlers[h].p
    /\ handlers' = Respond(h, "started")
    /\ UNCHANGED <<workers, test_json, persisted>>
    /\ UNCHANGED outsidePipe

\* stop_pipeline: if active_process and active_process.is_alive(), else error
StopCheck(h) ==
    /\ handlers[h].pc = "idle"
    /\ handlers' = IF IsAlive(active_process)
                   THEN [handlers EXCEPT ![h] = [IdleHandler EXCEPT !.pc = "stop_terminate"]]
                   ELSE Respond(h, "error: no active pipeline")
    /\ UNCHANGED <<active_process, workers, test_json, persisted>>
    /\ UNCHANGED outsidePipe

\* active_process.terminate(); active_process.join(): the global is read again
StopTerminate(h) ==
    /\ handlers[h].pc = "stop_terminate"
    /\ IF active_process = NoProcess
       THEN /\ handlers' = Respond(h, "error: AttributeError")
            /\ UNCHANGED workers
       ELSE /\ workers' = [workers EXCEPT ![active_process].alive = FALSE]
            /\ handlers' = [handlers EXCEPT ![h].pc = "stop_clear"]
    /\ UNCHANGED <<active_process, test_json, persisted>>
    /\ UNCHANGED outsidePipe

\* last_completed = {... "stopped"}; active_process = None; return success
StopClear(h) ==
    /\ handlers[h].pc = "stop_clear"
    /\ active_process' = NoProcess
    /\ handlers' = Respond(h, "success")
    /\ UNCHANGED <<workers, test_json, persisted>>
    /\ UNCHANGED outsidePipe

Running(w, at) == w \in AliveWorkers /\ workers[w].pc = at

\* for i, file_name in enumerate(audio_files): if i < len(final_questions):
\* continue: the worker at the first index that is not skipped, or past the
\* last file, where run_batch returns and the process ends
AtNextUnit(me) ==
    LET i == IF me.i < Len(me.final_questions) THEN Len(me.final_questions) ELSE me.i IN
    IF i >= MaxUnits
    THEN [me EXCEPT !.i = MaxUnits, !.pc = "ended", !.alive = FALSE]
    ELSE [me EXCEPT !.i = i, !.pc = "process"]

\* run_batch: final_questions = load_progress(2, file_path=test_json_path) or []
WorkerLoad(w) ==
    /\ Running(w, "load")
    /\ workers' = [workers EXCEPT ![w] =
                     AtNextUnit([workers[w] EXCEPT
                                    !.final_questions = LoadProgress(test_json)])]
    /\ UNCHANGED <<active_process, handlers, test_json, persisted>>
    /\ UNCHANGED outsidePipe

\* transcribe_audio, process_part2 and the copy of the audio file: the records of
\* the unit are appended, or an exception breaks the loop and the process ends
WorkerProcess(w) ==
    /\ Running(w, "process")
    /\ LET me == workers[w] IN
       \/ \E n \in QuestionsPerUnit :
             workers' = [workers EXCEPT ![w].final_questions =
                                           WithUnit(me.final_questions, me.i + 1, n),
                                        ![w].pc = "open"]
       \/ workers' = [workers EXCEPT ![w].pc = "ended", ![w].alive = FALSE]
    /\ UNCHANGED <<active_process, handlers, test_json, persisted>>
    /\ UNCHANGED outsidePipe

\* update_test_json: open(test_json_path, 'w') truncates the file
WorkerOpen(w) ==
    /\ Running(w, "open")
    /\ test_json' = [state |-> "truncated", questions |-> <<>>]
    /\ workers' = [workers EXCEPT ![w].pc = "dump"]
    /\ UNCHANGED <<active_process, handlers, persisted>>
    /\ UNCHANGED outsidePipe

\* update_test_json: json.dump completes and the file is closed; the persist step
\* of the unit is done
WorkerDump(w) ==
    /\ Running(w, "dump")
    /\ test_json' = [state |-> "written", questions |-> workers[w].final_questions]
    /\ persisted' = workers[w].final_questions
    /\ workers' = [workers EXCEPT ![w] = AtNextUnit([workers[w] EXCEPT !.i = @ + 1])]
    /\ UNCHANGED <<active_process, handlers>>
    /\ UNCHANGED outsidePipe

PipeNext ==
    \/ \E h \in Handlers : RunCheck(h)
    \/ \E h \in Handlers : RunStart(h)
    \/ \E h \in Handlers : RunAssign(h)
    \/ \E h \in Handlers : StopCheck(h)
    \/ \E h \in Handlers : StopTerminate(h)
    \/ \E h \in Handlers : StopClear(h)
    \/ \E w \in WorkerIds : WorkerLoad(w)
    \/ \E w \in WorkerIds : WorkerProcess(w)
    \/ \E w \in WorkerIds : WorkerOpen(w)
    \/ \E w \in WorkerIds : WorkerDump(w)

\* the rotation manager as seeded from one key and one model of provider google
SeededManager ==
    /\ active_provider = "google"
    /\ Len(providers["google"].keys) = 1
    /\ Len(providers["google"].models) = 1

PipeInit == Init /\ SeededManager

PipeSpec == PipeInit /\ [][PipeNext]_vars

----------------------------------------------------------------------------
(* safe_parse_json on the texts a model answers with: a JSON document as it  *)
(* is, inside a markdown fence, with a trailing comma, between prose         *)

\* the most changes made to one document before it is parsed
MaxWraps == 2

\* {"a":1}   [1,1]   [{"a":1}]   {"a":", }"}
Documents ==
    {<<"{", Quote, "a", Quote, ":", "1", "}">>,
     <<"[", "1", ",", "1", "]">>,
     <<"[", "{", Quote, "a", Quote, ":", "1", "}", "]">>,
     <<"{", Quote, "a", Quote, ":", Quote, ",", " ", "}", Quote, "}">>}

\* texts that are no JSON document: prose, and a document cut short
NoDocuments ==
    {<<"a", " ", "a">>,
     <<"{", Quote, "a", Quote, ":">>}

\* the index lies inside a string literal of the text
InString(text, k) ==
    Cardinality({i \in 1..(k - 1) : text[i] = Quote}) % 2 = 1

\* the indices of the closing brackets and braces of the document
Closers(text) ==
    {k \in 1..Len(text) : text[k] \in {"}", "]"} /\ ~InString(text, k)}

\* the text inside a markdown fence, with or without the language tag
Fenced(text, tag) ==
    <<Fence>> \o (IF tag THEN <<"json">> ELSE <<>>) \o <<" ">> \o text \o <<" ", Fence>>

\* the text with a comma before the closing bracket at index k
WithTrailingComma(text, k) ==
    SubSeq(text, 1, k - 1) \o <<",">> \o SubSeq(text, k, Len(text))

\* the text with prose before it and after it
InProse(text) == <<"a", " ">> \o text \o <<" ", "a">>

NewText(text, is_json) ==
    [pc |-> "text", intended |-> text, is_json |-> is_json, text |-> text,
     wraps |-> <<>>, result |-> Raised]

Wrapped(text, wrap) ==
    [parsed EXCEPT !.text = text, !.wraps = Append(@, wrap)]

\* the model answers with a document, or with something else
ReceiveText ==
    /\ \/ \E d \in Documents : parsed' = NewText(d, TRUE)
       \/ \E d \in NoDocuments : parsed' = NewText(d, FALSE)
    /\ UNCHANGED outsideParse

CanWrap == parsed.pc = "text" /\ parsed.is_json /\ Len(parsed.wraps) < MaxWraps

WrapFence ==
    /\ CanWrap
    /\ \E tag \in BOOLEAN : parsed' = Wrapped(Fenced(parsed.text, tag), "fence")
    /\ UNCHANGED outsideParse

AddTrailingComma ==
    /\ CanWrap
    /\ \E k \in Closers(parsed.text) :
          /\ parsed.text[k - 1] \notin {",", "[", "{"}
          /\ parsed' = Wrapped(WithTrailingComma(parsed.text, k), "comma")
    /\ UNCHANGED outsideParse

WrapProse ==
    /\ CanWrap
    /\ parsed' = Wrapped(InProse(parsed.text), "prose")
    /\ UNCHANGED outsideParse

\* safe_parse_json(raw_response)
SafeParse ==
    /\ parsed.pc = "text"
    /\ parsed' = [parsed EXCEPT !.pc = "parsed", !.result = SafeParseJson(parsed.text)]
    /\ UNCHANGED outsideParse

ParseNext ==
    \/ ReceiveText
    \/ WrapFence
    \/ AddTrailingComma
    \/ WrapProse
    \/ SafeParse

ParseInit == Init /\ SeededManager

ParseSpec == ParseInit /\ [][ParseNext]_vars

----------------------------------------------------------------------------
(* HybridRetriever.retrieve over the three collections of the vector store   *)
(* (tools/rag/retriever/hybrid_retriever.py, tools/rag/vectorstore)          *)

\* top_k_per_collection
TopKPerCollection == 3

\* user_id=None, collections=None, top_k=None
NoUser == "<none>"
AllCollections == {"<none>"}
NoTopK == 0

\* the documents that can be indexed, by collection; distance to the query in tenths
DocUniverse(c) ==
    CASE c = "system" -> {[id |-> "guide1", user_id |-> NoUser, distance |-> 6]}
      [] c = "toeic" -> {[id |-> "T1_q1", user_id |-> NoUser, distance |-> 3]}
      [] c = "user" -> {[id |-> "u1_T1_q1", user_id |-> "u1", distance |-> 4],
                        [id |-> "u2_T1_q1", user_id |-> "u2", distance |-> 5]}

\* col.query(n_results=k, where=...): the k nearest of the matching documents
RECURSIVE Nearest(_, _)
Nearest(docs, k) ==
    IF docs = {} \/ k = 0 THEN <<>>
    ELSE LET d == CHOOSE x \in docs : \A y \in docs : x.distance <= y.distance
         IN <<d>> \o Nearest(docs \ {d}, k - 1)

\* SearchResult(..., score=1 - distance), in tenths
SearchResult(d) ==
    [id |-> d.id, user_id |-> d.user_id, distance |-> d.distance, score |-> 10 - d.distance]

\* ChromaVectorStore.search
Search(st, c, k, where_user) ==
    LET matching == {d \in st[c] : where_user = NoUser \/ d.user_id = where_user}
        nearest == Nearest(matching, k)
    IN [i \in 1..Len(nearest) |-> SearchResult(nearest[i])]

\* variant: the exception of a search leaves retrieve
GuardedSearchPropagates(st, c, k, where_user, failing) ==
    IF c \in failing
    THEN [raised |-> TRUE, results |-> <<>>]
    ELSE [raised |-> FALSE, results |-> Search(st, c, k, where_user)]

\* try: results = self.vector_store.search(...)  except Exception: print(...)
GuardedSearch(st, c, k, where_user, failing) ==
    IF c \in failing
    THEN [raised |-> FALSE, results |-> <<>>]
    ELSE [raised |-> FALSE, results |-> Search(st, c, k, where_user)]

NotSearched == [raised |-> FALSE, results |-> <<>>]

\* retrieve(query, collections, top_k, user_id) when the searches of the
\* collections in failing raise
RetrieveOutcome(st, collections, top_k, user_id, failing) ==
    LET cs == IF collections = AllCollections THEN Collections ELSE collections
        k == IF top_k = NoTopK THEN TopKPerCollection ELSE top_k
        system == IF "system" \in cs
                  THEN GuardedSearch(st, "system", k, NoUser, failing) ELSE NotSearched
        toeic == IF "toeic" \in cs /\ ~system.raised
                 THEN GuardedSearch(st, "toeic", k, NoUser, failing) ELSE NotSearched
        user == IF "user" \in cs /\ ~system.raised /\ ~toeic.raised
                THEN GuardedSearch(st, "user", k, user_id, failing) ELSE NotSearched
    IN IF system.raised \/ toeic.raised \/ user.raised
       THEN [op |-> "retrieve", raised |-> TRUE, collections |-> cs, k |-> k,
             user_id |-> user_id, failing |-> failing,
             system_context |-> <<>>, toeic_context |-> <<>>, user_context |-> <<>>]
       ELSE [op |-> "retrieve", raised |-> FALSE, collections |-> cs, k |-> k,
             user_id |-> user_id, failing |-> failing,
             system_context |-> system.results, toeic_context |-> toeic.results,
             user_context |-> user.results]

\* upsert_documents(collection, [document], ids=[id])
Upsert ==
    /\ \E c \in Collections : \E d \in DocUniverse(c) :
          store' = [store EXCEPT ![c] = {x \in @ : x.id # d.id} \cup {d}]
    /\ UNCHANGED <<retrieval, indexVars>>
    /\ UNCHANGED outsideRag

Retrieve ==
    /\ \E collections \in SUBSET Collections \cup {AllCollections},
          failing \in SUBSET Collections,
          top_k \in {NoTopK, 1},
          user_id \in {NoUser, "u1"} :
          retrieval' = RetrieveOutcome(store, collections, top_k, user_id, failing)
    /\ UNCHANGED <<store, indexVars>>
    /\ UNCHANGED outsideRag

RagNext ==
    \/ Upsert
    \/ Retrieve

RagInit == Init /\ SeededManager

RagSpec == RagInit /\ [][RagNext]_vars

----------------------------------------------------------------------------
(* Indexing into the vector store: ToeicContentParser and index_test         *)
(* (tools/rag/knowledge/toeic_parser.py), UserMistakeAnalyzer and            *)
(* analyze_user_result (tools/rag/knowledge/user_analyzer.py),               *)
(* upsert_documents (tools/rag/vectorstore/chroma_store.py)                  *)

\* questions in the part of a test
MaxQuestions == 2

\* the latest instant the clock shows
MaxClock == 2

TestId == "T1"

QuestionIds == <<"q1", "q2", "q3", "q4">>

\* question texts; the first holds a keyword of the topic "office"
Texts == {"the meeting starts", "she is reading"}

Question(i, text) == [id |-> QuestionIds[i], text |-> text, correct_answer |-> "A"]

\* the question lists test.json can hold: the ids of one file are distinct
TestFiles ==
    UNION {{[i \in 1..n |-> Question(i, f[i])] : f \in [1..n -> Texts]}
           : n \in 0..MaxQuestions}

\* QUESTION_TYPES.get(part_number, "unknown")
QuestionType(part_number) ==
    CASE part_number = 1 -> "photo"
      [] part_number = 2 -> "qr"
      [] OTHER -> "unknown"

\* _extract_topics: the topics whose keyword occurs in the content, then the part
ExtractTopics(text, part_number) ==
    (IF text = "the meeting starts" THEN <<"office">> ELSE <<>>)
    \o << <<"part", part_number>> >>

\* _parse_question: the ToeicDocument of one question, as (doc_id, content,
\* to_metadata()); the content is the sequence of its lines
ParseQuestion(test_id, part_number, question) ==
    [id |-> <<test_id, "p", part_number, question.id>>,
     content |-> << <<"Question", question.text>>,
                    <<"Correct Answer", question.correct_answer>> >>,
     metadata |-> [test_id |-> test_id,
                   part_number |-> part_number,
                   question_id |-> question.id,
                   question_type |-> QuestionType(part_number),
                   correct_answer |-> question.correct_answer,
                   topics |-> ExtractTopics(question.text, part_number)]]

\* parse_test: the documents of the questions of part 1, in file order
ParseTest(test_id, file) ==
    [i \in 1..Len(file) |-> ParseQuestion(test_id, 1, file[i])]

\* variant: the document is added beside the one stored under its id
ColUpsertAdds(docs, d) == docs \cup {d}

\* col.upsert of one id: the document stored under the id is replaced
ColUpsert(docs, d) == {x \in docs : x.id # d.id} \cup {d}

\* upsert_documents(collection, documents, metadatas, ids)
RECURSIVE UpsertDocuments(_, _)
UpsertDocuments(docs, batch) ==
    IF Len(batch) = 0 THEN docs
    ELSE UpsertDocuments(ColUpsert(docs, Head(batch)), Tail(batch))

\* datetime.now().isoformat()
IsoFormat(now) == <<"iso", now>>

\* the record has no field "timestamp"
NoTimestamp == <<>>

\* the result files data/users/default/<result_id>.json: one attempt at the test
\* with a wrong answer to q1 and a right one to q2, saved with the timestamp of
\* the first instant or without the field "timestamp"
ResultRecords ==
    [test_id : {TestId}, timestamp : {NoTimestamp, IsoFormat(0)},
     answers : {<< <<"q1", "B">>, <<"q2", "a">> >>}]

NoResult == [test_id |-> TestId, timestamp |-> NoTimestamp, answers |-> <<>>]

\* str.upper()
Upper(answer) == IF answer = "a" THEN "A" ELSE answer

\* result_data.get("timestamp", datetime.now().isoformat())
TimestampOf(result_data, now) ==
    IF result_data.timestamp = NoTimestamp THEN IsoFormat(now) ELSE result_data.timestamp

\* _get_question_data: the questions of the file that have the id
QuestionsWithId(file, q_id) == SelectSeq(file, LAMBDA q : q.id = q_id)

\* a text is the sequence of its characters
WhereIsTheMeeting ==
    <<"W", "h", "e", "r", "e", " ", "i", "s", " ", "t", "h", "e", " ", "m", "e", "e",
      "t", "i", "n", "g", "?">>

DownTheHall == <<"D", "o", "w", "n", " ", "t", "h", "e", " ", "h", "a", "l", "l", ".">>

AtNoon == <<"A", "t", " ", "n", "o", "o", "n", ".">>

IWalk == <<"I", " ", "w", "a", "l", "k", ".">>

IWork == <<"I", " ", "w", "o", "r", "k", ".">>

KeyQuestion == <<"q", "u", "e", "s", "t", "i", "o", "n">>

\* user_transcript / correct_transcript: None, a str, or a dict given by its
\* (key, value) pairs in order
NoTranscript == [kind |-> "none", items |-> <<>>, text |-> <<>>]

DictOf(items) == [kind |-> "dict", items |-> items, text |-> <<>>]

StrOf(text) == [kind |-> "str", items |-> <<>>, text |-> text]

\* the correct transcript of the record: the question and the answers A and B
MeetingTranscript ==
    DictOf(<< <<KeyQuestion, WhereIsTheMeeting>>, << <<"A">>, DownTheHall>>,
              << <<"B">>, AtNoon>> >>)

\* the user transcript of the record: the question and the chosen answer
MeetingHeard == DictOf(<< <<KeyQuestion, WhereIsTheMeeting>>, << <<"B">>, AtNoon>> >>)

UserTranscripts ==
    {NoTranscript, MeetingHeard, MeetingTranscript, DictOf(<< << <<"B">>, IWalk>> >>),
     StrOf(AtNoon), DictOf(<<>>)}

CorrectTranscripts == {NoTranscript, MeetingTranscript, DictOf(<< << <<"A">>, IWork>> >>)}

\* the options and the text of a question of part 5, 6 or 7
WordForms ==
    << <<"q", "u", "i", "c", "k">>, <<"q", "u", "i", "c", "k", "l", "y">>, <<"q", "u",
      "i", "c", "k", "n", "e", "s", "s">>, <<"Q", "u", "i", "c", "k", "e", "r">> >>

Prepositions == << <<"i", "n">>, <<"o", "n">>, <<"a", "t">>, <<"b", "y">> >>

WhatIsInferred ==
    <<"W", "h", "a", "t", " ", "c", "a", "n", " ", "b", "e", " ", "I", "n", "f", "e",
      "r", "r", "e", "d", "?">>

WhatIsStated ==
    <<"W", "h", "a", "t", " ", "i", "s", " ", "s", "t", "a", "t", "e", "d", "?">>

QuestionsAsked ==
    [options : {<<>>, WordForms, Prepositions}, text : {WhatIsInferred, WhatIsStated}]

\* the TOEIC parts
MaxPart == 7

\* str.lower() on the letters the texts have in upper case
LowerChar(c) ==
    CASE c = "A" -> "a" [] c = "B" -> "b" [] c = "D" -> "d" [] c = "I" -> "i"
      [] c = "Q" -> "q" [] c = "W" -> "w" [] OTHER -> c

LowerCase(text) == [i \in 1..Len(text) |-> LowerChar(text[i])]

\* sep.join(texts)
RECURSIVE Join(_, _)
Join(sep, texts) ==
    IF Len(texts) = 0 THEN <<>>
    ELSE IF Len(texts) = 1 THEN texts[1]
    ELSE texts[1] \o sep \o Join(sep, Tail(texts))

\* str(d) of a dict of strings: {'key': 'value', ...}; str(s) of a str is s
Str(transcript) ==
    IF transcript.kind = "dict"
    THEN <<"{">>
         \o Join(<<",", " ">>,
                 [i \in 1..Len(transcript.items) |->
                     <<"'">> \o transcript.items[i][1] \o <<"'", ":", " ", "'">>
                     \o transcript.items[i][2] \o <<"'">>])
         \o <<"}">>
    ELSE transcript.text

\* " ".join(d.values())
JoinedValues(transcript) ==
    Join(<<" ">>, [i \in 1..Len(transcript.items) |-> transcript.items[i][2]])

\* word in text
In(word, text) ==
    \E i \in 0..(Len(text) - Len(word)) : SubSeq(text, i + 1, i + Len(word)) = word

\* text.endswith(suf)
EndsWith(text, suf) ==
    Len(suf) <= Len(text) /\ SubSeq(text, Len(text) - Len(suf) + 1, Len(text)) = suf

\* if x: of None, "" and {}
Truthy(transcript) ==
    \/ transcript.kind = "dict" /\ Len(transcript.items) > 0
    \/ transcript.kind = "str" /\ Len(transcript.text) > 0

\* similar_pairs
SimilarPairs ==
    << <<<<"t", "h", "r", "e", "e">>, <<"t", "r", "e", "e">>>>, <<<<"s", "h", "i",
      "p">>, <<"s", "h", "e", "e", "p">>>>, <<<<"w", "o", "r", "k">>, <<"w", "a", "l",
      "k">>>>, <<<<"r", "i", "g", "h", "t">>, <<"w", "r", "i", "t", "e">>>>, <<<<"t",
      "h", "e", "i", "r">>, <<"t", "h", "e", "r", "e">>>>, <<<<"h", "e", "a", "r">>,
      <<"h", "e", "r", "e">>>>, <<<<"w", "o", "n">>, <<"o", "n", "e">>>>, <<<<"r",
      "e", "a", "d">>, <<"r", "e", "d">>>>, <<<<"b", "u", "y">>, <<"b", "y">>>>,
      <<<<"s", "e", "a">>, <<"s", "e", "e">>>>, <<<<"n", "o">>, <<"k", "n", "o",
      "w">>>>, <<<<"t", "h", "r", "o", "u", "g", "h">>, <<"t", "h", "r", "e", "w">>>>
      >>

\* _has_similar_sounds
HasSimilarSounds(text1, text2) ==
    \E p \in 1..Len(SimilarPairs) :
        \/ In(SimilarPairs[p][1], text1) /\ In(SimilarPairs[p][2], text2)
        \/ In(SimilarPairs[p][2], text1) /\ In(SimilarPairs[p][1], text2)

\* suffixes
Suffixes ==
    << <<"l", "y">>, <<"n", "e", "s", "s">>, <<"m", "e", "n", "t">>, <<"t", "i", "o",
      "n">>, <<"i", "n", "g">>, <<"e", "d">>, <<"e", "r">>, <<"e", "s", "t">> >>

\* the stem of an option: the first suffix of the list it ends with is removed,
\* then stem[:4]
Stem(opt) ==
    LET lower == LowerCase(opt)
        ending == {s \in 1..Len(Suffixes) : EndsWith(lower, Suffixes[s])}
        stem == IF ending = {} THEN lower
                ELSE LET first == CHOOSE s \in ending : \A x \in ending : s <= x
                     IN SubSeq(lower, 1, Len(lower) - Len(Suffixes[first]))
    IN SubSeq(stem, 1, IF Len(stem) < 4 THEN Len(stem) ELSE 4)

\* _are_word_forms
AreWordForms(options) ==
    IF Len(options) < 2 THEN FALSE
    ELSE Cardinality({Stem(options[i]) : i \in 1..Len(options)}) <= 2

\* variant: part 5 is taken for a listening part
ClassifyErrorUpToFive(part_number, user_transcript, correct_transcript, question) ==
    IF part_number <= 5 THEN "listening_context"
    ELSE IF In(<<"i", "n", "f", "e", "r">>, LowerCase(question.text))
            \/ In(<<"i", "m", "p", "l", "y">>, LowerCase(question.text))
    THEN "reading_inference"
    ELSE "reading_detail"

\* _classify_error
ClassifyError(part_number, user_transcript, correct_transcript, question) ==
    IF part_number <= 4
    THEN IF Truthy(user_transcript) /\ Truthy(correct_transcript)
         THEN LET user_text == IF user_transcript.kind = "dict"
                               THEN LowerCase(JoinedValues(user_transcript))
                               ELSE <<>>
                  correct_text == LowerCase(Str(correct_transcript))
              IN IF HasSimilarSounds(user_text, correct_text)
                 THEN "listening_similar_sound"
                 ELSE IF 2 * Len(user_text) < Len(correct_text)
                 THEN "listening_speed"
                 ELSE "listening_vocabulary"
         ELSE "listening_context"
    ELSE IF part_number = 5
    THEN IF Len(question.options) >= 4 /\ AreWordForms(question.options)
         THEN "grammar_word_form"
         ELSE "grammar_tense"
    ELSE IF In(<<"i", "n", "f", "e", "r">>, LowerCase(question.text))
            \/ In(<<"i", "m", "p", "l", "y">>, LowerCase(question.text))
    THEN "reading_inference"
    ELSE "reading_detail"

\* _generate_analysis without transcripts
GenerateAnalysis(user_answer, correct_answer, error_type) ==
    << <<"chose", user_answer, "instead of", correct_answer>>,
       <<"predicted error type", error_type>> >>

\* the UserMistake of one wrong answer as (doc_id, to_content(), to_metadata())
UserMistake(user_id, test_id, question, part_number, user_answer, timestamp) ==
    LET error_type == ClassifyError(part_number, NoTranscript, NoTranscript, question)
        error_analysis == GenerateAnalysis(user_answer, question.correct_answer, error_type)
    IN [id |-> <<"user", user_id, "mistake", test_id, question.id>>,
        content |-> << <<"test", test_id, part_number, question.id>>,
                       <<"chose", user_answer, "correct", question.correct_answer>>,
                       <<"error type", error_type>>,
                       <<"analysis", error_analysis>> >>,
        metadata |-> [user_id |-> user_id,
                      test_id |-> test_id,
                      question_id |-> question.id,
                      part_number |-> part_number,
                      user_answer |-> user_answer,
                      correct_answer |-> question.correct_answer,
                      error_type |-> error_type,
                      timestamp |-> timestamp]]

\* analyze_result: the mistakes of the answers, in the order of the answers
RECURSIVE Mistakes(_, _, _, _)
Mistakes(answers, test_id, file, timestamp) ==
    IF Len(answers) = 0 THEN <<>>
    ELSE LET q_id == Head(answers)[1]
             user_answer == Head(answers)[2]
             found == QuestionsWithId(file, q_id)
             rest == Mistakes(Tail(answers), test_id, file, timestamp)
         IN IF Len(found) = 0 THEN rest
            ELSE IF Upper(user_answer) = Upper(found[1].correct_answer) THEN rest
            ELSE <<UserMistake("default", test_id, found[1], 1, user_answer, timestamp)>>
                 \o rest

AnalyzeResult(result_data, file, now) ==
    Mistakes(result_data.answers, result_data.test_id, file,
             TimestampOf(result_data, now))

\* what a call synthesized from which sources; again: the call before it was the
\* same call on the same sources
Indexed(op, result, docs) ==
    [op |-> op, result |-> result, file |-> corpus, docs |-> docs, ret |-> Len(docs),
     again |-> /\ indexing.op = op
               /\ indexing.result = result
               /\ indexing.file = corpus]

\* the pipeline or an editor writes test.json
WriteTest ==
    /\ \E file \in TestFiles : file # corpus /\ corpus' = file
    /\ UNCHANGED <<store, retrieval, clock, indexing>>
    /\ UNCHANGED outsideRag

\* time passes
Tick ==
    /\ clock < MaxClock
    /\ clock' = clock + 1
    /\ UNCHANGED <<store, retrieval, corpus, indexing>>
    /\ UNCHANGED outsideRag

\* index_test(test_id, vector_store)
IndexTest ==
    /\ LET docs == ParseTest(TestId, corpus) IN
       /\ indexing' = Indexed("index_test", NoResult, docs)
       /\ store' = IF Len(docs) = 0 THEN store
                   ELSE [store EXCEPT !["toeic"] = UpsertDocuments(@, docs)]
    /\ UNCHANGED <<retrieval, corpus, clock>>
    /\ UNCHANGED outsideRag

\* analyze_user_result(result_id, vector_store)
IndexResult ==
    /\ \E result_data \in ResultRecords :
          LET mistakes == AnalyzeResult(result_data, corpus, clock) IN
          /\ indexing' = Indexed("analyze_user_result", result_data, mistakes)
          /\ store' = IF Len(mistakes) = 0 THEN store
                      ELSE [store EXCEPT !["user"] = UpsertDocuments(@, mistakes)]
    /\ UNCHANGED <<retrieval, corpus, clock>>
    /\ UNCHANGED outsideRag

IndexNext ==
    \/ WriteTest
    \/ Tick
    \/ IndexTest
    \/ IndexResult

IndexSpec == RagInit /\ [][IndexNext]_vars

\* _classify_error(part_number, user_answer, correct_answer, user_transcript,
\* correct_transcript, question) on one wrong answer
Classify ==
    /\ \E part_number \in 1..MaxPart, user_transcript \in UserTranscripts,
          correct_transcript \in CorrectTranscripts, question \in QuestionsAsked :
          indexing' = [op |-> "classify_error", part_number |-> part_number,
                       user_transcript |-> user_transcript,
                       correct_transcript |-> correct_transcript,
                       question |-> question,
                       error_type |-> ClassifyError(part_number, user_transcript,
                                                    correct_transcript, question)]
    /\ UNCHANGED <<store, retrieval, corpus, clock>>
    /\ UNCHANGED outsideRag

ClassifySpec == RagInit /\ [][Classify]_vars

----------------------------------------------------------------------------
(* RAGChain.chat and RAGChain.explain_question                              *)
(* (tools/rag/generator/rag_chain.py) with RetrievalContext                  *)
(* (tools/rag/retriever/hybrid_retriever.py)                                 *)

\* Text is a sequence of pieces of 100 characters; the slices r.content[:500],
\* [:400], [:300] of to_prompt_context, context_text[:500] of chat and
\* r.content[:100] of the sources, in pieces
SystemSlice == 5
ToeicSlice == 4
UserSlice == 3
AnswerSlice == 5
PreviewSlice == 1

Ellipsis == <<"...">>

Min(a, b) == IF a <= b THEN a ELSE b

\* text[:n]
Slice(text, n) == SubSeq(text, 1, Min(n, Len(text)))

\* text[:n] + "..." if len(text) > n else text
Clip(text, n) == IF Len(text) > n THEN Slice(text, n) \o Ellipsis ELSE text

\* the content of a stored document: its length depends on the document
ContentOf(id) ==
    LET pieces == CASE id = "guide1" -> 6
                    [] id = "u1_T1_q1" -> 4
                    [] id = "T1_q1" -> 2
                    [] OTHER -> 1
    IN [k \in 1..pieces |-> <<id, k>>]

\* the metadata fields test_id and question_id of a stored document
MetadataOf(id) ==
    IF id \in {"T1_q1", "u1_T1_q1", "u2_T1_q1"}
    THEN [test_id |-> "T1", question_id |-> "q1"]
    ELSE [test_id |-> "", question_id |-> ""]

RECURSIVE Joined(_)
Joined(texts) == IF Len(texts) = 0 THEN <<>> ELSE Head(texts) \o Joined(Tail(texts))

\* one section of to_prompt_context: its title, then the first items clipped
Section(title, results, items, slice) ==
    IF Len(results) = 0 THEN <<>>
    ELSE <<title>>
         \o Joined([i \in 1..Min(items, Len(results)) |->
                       Clip(ContentOf(results[i].id), slice)])

\* RetrievalContext.to_prompt_context
ToPromptContext(context) ==
    LET sections == Section("system guide", context.system_context, 3, SystemSlice)
                    \o Section("toeic knowledge", context.toeic_context, 5, ToeicSlice)
                    \o Section("user mistakes", context.user_context, 5, UserSlice)
    IN IF Len(sections) = 0 THEN <<"no relevant information found">> ELSE sections

\* sorted(all_results, key=score, reverse=True): stable, by selection
RECURSIVE SortedByScore(_)
SortedByScore(results) ==
    IF Len(results) = 0 THEN <<>>
    ELSE LET top == CHOOSE i \in 1..Len(results) :
                       /\ \A j \in 1..Len(results) : results[j].score <= results[i].score
                       /\ \A j \in 1..(i - 1) : results[j].score < results[i].score
         IN <<results[top]>>
            \o SortedByScore(SubSeq(results, 1, top - 1)
                             \o SubSeq(results, top + 1, Len(results)))

\* variant: the first k of the union as the collections were searched
GetFirstK(context, k) ==
    Slice(context.system_context \o context.toeic_context \o context.user_context, k)

\* RetrievalContext.get_top_k
GetTopK(context, k) ==
    Slice(SortedByScore(context.system_context \o context.toeic_context
                        \o context.user_context), k)

\* the sources list of chat
Sources(results) ==
    [i \in 1..Len(results) |->
        [id |-> results[i].id,
         content_preview |-> Clip(ContentOf(results[i].id), PreviewSlice),
         score |-> results[i].score]]

\* variant: the query is made without the where clause
SearchAnywhere(st, c, k, field, value) ==
    LET nearest == Nearest(st[c], k)
    IN [i \in 1..Len(nearest) |-> SearchResult(nearest[i])]

\* col.query(n_results=k, where={field: value})
SearchWhere(st, c, k, field, value) ==
    LET matching == {d \in st[c] : MetadataOf(d.id)[field] = value}
        nearest == Nearest(matching, k)
    IN [i \in 1..Len(nearest) |-> SearchResult(nearest[i])]

\* HybridRetriever.retrieve_for_question, when the searches of the collections
\* in failing raise
RetrieveForQuestion(st, test_id, question_id, user_id, failing) ==
    [system_context |-> <<>>,
     toeic_context |-> IF "toeic" \in failing THEN <<>>
                       ELSE SearchWhere(st, "toeic", 5, "test_id", test_id),
     user_context |-> IF "user" \in failing THEN <<>>
                      ELSE SearchWhere(st, "user", 3, "question_id", question_id)]

\* what self._call_llm(full_prompt, json_mode=False) returns or raises
GenerationOutcomes ==
    [kind : {"text"}, msg : {<<>>}] \cup [kind : {"error"}, msg : {QuotaError, AuthError}]

Generated == [kind |-> "generated", error |-> <<>>, context |-> <<>>]

\* chat: answer = "[LLM call failed: e] Based on what was found: context_text[:500]..."
ChatAnswer(gen, context_text) ==
    IF gen.kind = "text" THEN Generated
    ELSE [kind |-> "degraded", error |-> gen.msg,
          context |-> Slice(context_text, AnswerSlice) \o Ellipsis]

\* explain_question: answer = "[Error: e]"
ExplainAnswer(gen, context_text) ==
    IF gen.kind = "text" THEN Generated
    ELSE [kind |-> "degraded", error |-> gen.msg, context |-> <<>>]

RAGResponse(op, asked, gen, answer, context, sources) ==
    [op |-> op, asked |-> asked, raised |-> FALSE, generation |-> gen.kind,
     answer |-> answer, context |-> context, sources |-> sources]

\* the identities a call is made with
Asked(test_id, question_id, user_id) ==
    [test_id |-> test_id, question_id |-> question_id, user_id |-> user_id]

\* chat(query, user_id, collections)
Chat ==
    /\ \E collections \in {AllCollections, {"toeic"}}, failing \in SUBSET {"system"},
          gen \in GenerationOutcomes :
          LET r == RetrieveOutcome(store, collections, NoTopK, "u1", failing)
              context == [system_context |-> r.system_context,
                          toeic_context |-> r.toeic_context,
                          user_context |-> r.user_context]
          IN rag_response' = RAGResponse("chat", Asked("", "", "u1"), gen,
                                         ChatAnswer(gen, ToPromptContext(context)),
                                         context, Sources(GetTopK(context, 5)))
    /\ UNCHANGED <<store, retrieval, indexVars>>
    /\ UNCHANGED outsideChain

\* explain_question(test_id, question_id, user_answer, correct_answer, part_number)
ExplainQuestion ==
    /\ \E test_id \in {"T1", "T2"}, question_id \in {"q1", "q2"},
          user_id \in {"u1", "u2"}, failing \in SUBSET {"user"},
          gen \in GenerationOutcomes :
          LET context == RetrieveForQuestion(store, test_id, question_id, user_id,
                                             failing)
          IN rag_response' = RAGResponse("explain_question",
                                         Asked(test_id, question_id, user_id), gen,
                                         ExplainAnswer(gen, ToPromptContext(context)),
                                         context, <<>>)
    /\ UNCHANGED <<store, retrieval, indexVars>>
    /\ UNCHANGED outsideChain

\* the largest k get_top_k is called with (k: int = 5)
MaxTopK == 5

\* context.get_top_k(k) on what the last retrieve returned
TopK ==
    /\ retrieval.op = "retrieve"
    /\ \E k \in 0..MaxTopK :
          LET context == [system_context |-> retrieval.system_context,
                          toeic_context |-> retrieval.toeic_context,
                          user_context |-> retrieval.user_context]
          IN rag_response' = [op |-> "get_top_k", k |-> k, context |-> context,
                              results |-> GetTopK(context, k)]
    /\ UNCHANGED <<store, retrieval, indexVars>>
    /\ UNCHANGED outsideChain

\* retrieve(query, collections, top_k) with no user and no failing search
RetrieveFound ==
    /\ \E collections \in SUBSET Collections, top_k \in {NoTopK, 1} :
          retrieval' = RetrieveOutcome(store, collections, top_k, NoUser, {})
    /\ UNCHANGED <<store, indexVars>>
    /\ UNCHANGED outsideRag

TopKNext ==
    \/ Upsert
    \/ RetrieveFound
    \/ TopK

TopKSpec == RagInit /\ [][TopKNext]_vars

ChainNext ==
    \/ Upsert
    \/ Chat
    \/ ExplainQuestion

ChainSpec == RagInit /\ [][ChainNext]_vars

----------------------------------------------------------------------------
(* call_llm statement by statement, next to a second thread that calls the   *)
(* manager: what holds the lock while the provider is called or the call     *)
(* sleeps, and which adapter the attempt invokes (llm.py 63-110, 114-122)    *)

Other == "t2"

\* the settings the second thread saves: a selection of the active provider
SelectionInputs == {s \in SettingsInputs : Len(s.providers) = 0}

\* the retries argument of the calls followed statement by statement
FewRetries == {1, 2}

\* the call begins
CallBeginFew == CallBeginOf(FewRetries) /\ UNCHANGED outsideLlm

\* variant: the with-statement of get_current is left with the lock still held
ExitHolding(l) == l

\* the end of a with self._lock block: the lock is free
Exit(l) == NoThread

\* if rotation_manager.active_provider == "google": google_provider else openai_provider
AdapterOf(active) == IF active = "google" THEN "google_provider" ELSE "openai_provider"

\* api_key, model_name, label = rotation_manager.get_current(): with self._lock
GetCurrentEnter ==
    /\ request.pc = "try"
    /\ pc[Caller] = "idle"
    /\ CanAcquire(lock)
    /\ lock' = Caller
    /\ pc' = [pc EXCEPT ![Caller] = "get_current"]
    /\ request' = [request EXCEPT !.pc = "get_current"]
    /\ UNCHANGED <<providers, active_provider, rotation_callback, llm_providers,
                   llm_keys, cycle_calls, last, call>>
    /\ UNCHANGED outsideLlm

\* the body of get_current and its return or raise; of_provider is the provider
\* whose pool the returned credential was read from
GetCurrentReturn ==
    /\ request.pc = "get_current"
    /\ pc[Caller] = "get_current"
    /\ LET c == CurrentOutcome(providers, active_provider) IN
       /\ last' = Returned("get_current", c.ret, c.cred, <<>>, NoSettings, 0, 0)
       /\ request' = IF c.ret # "credential"
                     THEN Handled(request, CurrentError(c.ret))
                     ELSE Put([request EXCEPT !.pc = "adapter"],
                              "of_provider", active_provider)
    /\ lock' = Exit(lock)
    /\ pc' = [pc EXCEPT ![Caller] = "idle"]
    /\ UNCHANGED <<providers, active_provider, rotation_callback, llm_providers,
                   llm_keys, cycle_calls, call>>
    /\ UNCHANGED outsideLlm

\* if rotation_manager.active_provider == "google": the attribute is read again,
\* outside the lock, and the call of the adapter begins
ChooseAdapter ==
    /\ request.pc = "adapter"
    /\ request' = Put([request EXCEPT !.pc = "calling"],
                      "adapter", AdapterOf(active_provider))
    /\ UNCHANGED <<providers, active_provider, rotation_callback, lock, pc,
                   llm_providers, llm_keys, cycle_calls, last, call>>
    /\ UNCHANGED outsideLlm

\* the adapter returns or raises, and the rest of the try statement runs
ProviderReturns ==
    /\ request.pc = "calling"
    /\ \E out \in ProviderOutcomes : request' = Answered(request, out)
    /\ UNCHANGED <<providers, active_provider, rotation_callback, lock, pc,
                   llm_providers, llm_keys, cycle_calls, last, call>>
    /\ UNCHANGED outsideLlm

\* if rotation_manager.rotate(reason): continue; else: time.sleep(wait_time) begins
RotateOnError ==
    /\ request.pc = "rotate_error"
    /\ RotateCall(Caller)
    /\ request' =
          CASE last'.ret = "true" -> Continue(Rotated(request))
            [] last'.ret = "false" ->
                  [Rotated(request) EXCEPT !.pc = "sleeping",
                                           !.sleeps = Append(@, WaitTime(request.attempt))]
            [] OTHER -> [Rotated(request) EXCEPT !.pc = "blocked"]
    /\ UNCHANGED outsideLlm

\* time.sleep(wait_time) returns; continue
SleepReturns ==
    /\ request.pc = "sleeping"
    /\ request' = Continue([request EXCEPT !.episode = 0])
    /\ UNCHANGED <<providers, active_provider, rotation_callback, lock, pc,
                   llm_providers, llm_keys, cycle_calls, last, call>>
    /\ UNCHANGED outsideLlm

\* the second thread saves a selection: update_settings from POST /pipeline/config
SelectProvider == UpdateSettingsOf(SelectionInputs) /\ UNCHANGED clientVars

ThreadsNext ==
    \/ SetRotationCallback
    \/ CallBeginFew
    \/ LoopTest
    \/ GetCurrentEnter
    \/ GetCurrentReturn
    \/ ChooseAdapter
    \/ ProviderReturns
    \/ RotateOnError
    \/ SleepReturns
    \/ RotateAfterParse
    \/ Rotate(Other)
    \/ GetCurrent
    \/ SelectProvider

\* the manager as seeded with one key and every model of provider google
ThreadsInit ==
    /\ Init
    /\ active_provider = "google"
    /\ Len(providers["google"].keys) = 1
    /\ Len(providers["google"].models) = MaxModels

ThreadsSpec == ThreadsInit /\ [][ThreadsNext]_vars

----------------------------------------------------------------------------
(* The serving process and the worker process, each with its own             *)
(* rotation_manager over the same llm_providers / llm_keys tables            *)
(* (rotation.py 38-134, backend/app/api/v1/pipeline.py 173-257)              *)

\* calls of rotate the worker process makes in one run
MaxWorkerCalls == 2

\* the manager the child process starts with: the parent's object as it is at
\* the fork, or the one constructed from the tables when the module is imported
\* in a spawned child
StartedManagers ==
    {[state |-> "running", providers |-> providers, active_provider |-> active_provider,
      rotation_callback |-> rotation_callback, calls |-> 0],
     [state |-> "running", providers |-> LoadProviders(llm_providers, llm_keys),
      active_provider |-> LoadActive(llm_providers),
      rotation_callback |-> rotation_callback, calls |-> 0]}

\* multiprocessing.Process(target=_worker_entry, ...).start(), while no thread of
\* the serving process is inside the manager
WorkerStart ==
    /\ replica.state = "none"
    /\ lock = NoThread
    /\ \E m \in StartedManagers : replica' = m
    /\ UNCHANGED managerVars
    /\ UNCHANGED outsideProc

\* rotate() of the worker's manager, called from call_llm or transcribe_audio in
\* run_batch: the cursors of its own copy move and _save_to_db writes the copy
WorkerRotate ==
    /\ replica.state = "running"
    /\ replica.calls < MaxWorkerCalls
    /\ IF Unusable(replica.providers, replica.active_provider)
       THEN /\ replica' = [replica EXCEPT !.calls = @ + 1]
            /\ UNCHANGED <<llm_providers, llm_keys>>
       ELSE LET r == AdvanceCursors(replica.providers[replica.active_provider])
                provs == [replica.providers EXCEPT ![replica.active_provider] = r.pool]
            IN /\ replica' = [replica EXCEPT
                                 !.providers = provs,
                                 !.calls = @ + 1,
                                 !.state = IF r.advanced /\ replica.rotation_callback = "set"
                                           THEN "blocked" ELSE "running"]
               /\ llm_providers' = SaveProviders(provs, replica.active_provider,
                                                 llm_providers)
               /\ llm_keys' = SaveKeys(provs, llm_keys)
    /\ UNCHANGED <<providers, active_provider, rotation_callback, lock, pc,
                   cycle_calls, last, call>>
    /\ UNCHANGED outsideProc

\* the worker process ends, or POST /pipeline/stop terminates it
WorkerExit ==
    /\ replica.state # "none"
    /\ replica' = NoReplica
    /\ UNCHANGED managerVars
    /\ UNCHANGED outsideProc

ProcNext ==
    \/ SetRotationCallback
    \/ \E t \in Threads : Rotate(t)
    \/ SelectProvider
    \/ WorkerStart
    \/ WorkerRotate
    \/ WorkerExit

ProcSpec == ThreadsInit /\ [][ProcNext]_vars

----------------------------------------------------------------------------
(* The log path: the worker puts messages on the multiprocessing queue, the  *)
(* thread _log_consumer takes them and calls broadcast_log, which hands one  *)
(* put_nowait per observer to the event loop                                 *)
(* (backend/app/api/v1/pipeline.py 31-57, 91-107, 212-257)                   *)

\* messages the worker logs in one run
MaxMessages == 3

\* broadcast_log("[!] Pipeline forced stopped by user.") of the stop handler
StopMessage == 0

Registered(queues) == {i \in DOMAIN queues : queues[i].state = "registered"}

\* the worker messages among the broadcasts so far, in the order of the calls
WorkerBroadcasts ==
    SelectSeq([i \in 1..Len(broadcasts) |-> broadcasts[i].msg],
              LAMBDA m : m # StopMessage)

\* variant: the callback is put at the front of what the loop has to run
CallSoonFirst(loop, client_id, msg) == <<[client_id |-> client_id, msg |-> msg]>> \o loop

\* main_loop.call_soon_threadsafe(queue.put_nowait, msg)
CallSoonThreadsafe(loop, client_id, msg) ==
    Append(loop, [client_id |-> client_id, msg |-> msg])

\* for client_id, queue in list(active_log_queues.items()): from client i on
RECURSIVE BroadcastFrom(_, _, _, _)
BroadcastFrom(loop, msg, queues, i) ==
    IF i > Len(queues) THEN loop
    ELSE BroadcastFrom(IF queues[i].state = "registered"
                       THEN CallSoonThreadsafe(loop, i, msg) ELSE loop,
                       msg, queues, i + 1)

\* broadcast_log(msg), called after startup_event has set main_loop
BroadcastLog(loop, msg, queues) == BroadcastFrom(loop, msg, queues, 1)

\* pipeline_logs_websocket: active_log_queues[client_id] = asyncio.Queue()
Connect(c) ==
    /\ active_log_queues[c].state = "none"
    /\ active_log_queues' = [active_log_queues EXCEPT ![c].state = "registered"]
    /\ UNCHANGED <<log_queue, main_loop, broadcasts>>
    /\ UNCHANGED outsideLog

\* log_msg = await queue.get(); await websocket.send_text(log_msg)
SendText(c) ==
    /\ active_log_queues[c].state = "registered"
    /\ Len(active_log_queues[c].queue) > 0
    /\ active_log_queues' =
          [active_log_queues EXCEPT
              ![c].queue = Tail(@),
              ![c].sent = Append(@, Head(active_log_queues[c].queue))]
    /\ UNCHANGED <<log_queue, main_loop, broadcasts>>
    /\ UNCHANGED outsideLog

\* except WebSocketDisconnect: del active_log_queues[client_id]
Disconnect(c) ==
    /\ active_log_queues[c].state = "registered"
    /\ active_log_queues' = [active_log_queues EXCEPT ![c].state = "gone"]
    /\ UNCHANGED <<log_queue, main_loop, broadcasts>>
    /\ UNCHANGED outsideLog

\* log_wrapper(msg) in the worker process: queue.put(msg)
LogWrapper ==
    /\ Len(WorkerBroadcasts) + Len(log_queue) < MaxMessages
    /\ log_queue' = Append(log_queue, Len(WorkerBroadcasts) + Len(log_queue) + 1)
    /\ UNCHANGED <<active_log_queues, main_loop, broadcasts>>
    /\ UNCHANGED outsideLog

\* one pass of the loop of _log_consumer: msg = queue.get(); broadcast_log(msg)
LogConsumer ==
    /\ Len(log_queue) > 0
    /\ log_queue' = Tail(log_queue)
    /\ main_loop' = BroadcastLog(main_loop, Head(log_queue), active_log_queues)
    /\ broadcasts' = Append(broadcasts, [msg |-> Head(log_queue),
                                         to |-> Registered(active_log_queues)])
    /\ UNCHANGED active_log_queues
    /\ UNCHANGED outsideLog

\* stop_pipeline, in a thread of the server's pool: broadcast_log(...)
StopBroadcast ==
    /\ \A i \in 1..Len(broadcasts) : broadcasts[i].msg # StopMessage
    /\ main_loop' = BroadcastLog(main_loop, StopMessage, active_log_queues)
    /\ broadcasts' = Append(broadcasts, [msg |-> StopMessage,
                                         to |-> Registered(active_log_queues)])
    /\ UNCHANGED <<log_queue, active_log_queues>>
    /\ UNCHANGED outsideLog

\* the event loop runs the next callback: queue.put_nowait(msg)
LoopRuns ==
    /\ Len(main_loop) > 0
    /\ LET cb == Head(main_loop) IN
       active_log_queues' = [active_log_queues EXCEPT ![cb.client_id].queue =
                                Append(@, cb.msg)]
    /\ main_loop' = Tail(main_loop)
    /\ UNCHANGED <<log_queue, broadcasts>>
    /\ UNCHANGED outsideLog

LogNext ==
    \/ \E c \in DOMAIN Clients : Connect(c)
    \/ \E c \in DOMAIN Clients : SendText(c)
    \/ \E c \in DOMAIN Clients : Disconnect(c)
    \/ LogWrapper
    \/ LogConsumer
    \/ StopBroadcast
    \/ LoopRuns

LogSpec == PipeInit /\ [][LogNext]_vars

----------------------------------------------------------------------------
(* The run state: run_pipeline and stop_pipeline set current_run and         *)
(* last_completed, the worker logs through its queue, and the thread         *)
(* _log_consumer of each run records how the run ended                       *)
(* (backend/app/api/v1/pipeline.py 150-257)                                  *)

\* the bodies of POST /pipeline/run
RunRequests == {[test_id |-> "T1", part |-> 1], [test_id |-> "T2", part |-> 2]}

\* the texts the consumer tells apart
Initializing == "[*] Initializing Part Worker PID"
CriticalError == "[!] Critical Worker Error"
BatchEnded == "[*] Batch process ended"
ForcedStop == "[!] Pipeline forced stopped by user."

\* the process of one run with the queue it was given
StartedWorker == [alive |-> TRUE, pc |-> "init", queue |-> <<>>, raised |-> FALSE]

\* if "Batch process ended" in msg or "Critical Worker Error" in msg
IsFinal(msg) == msg \in {BatchEnded, CriticalError}

\* "completed" if "Batch process ended" in msg else "error"
StatusOf(msg) == IF msg = BatchEnded THEN "completed" ELSE "error"

\* run_pipeline: the check, current_run, the queue, the process and the thread
RunPipeline ==
    /\ Len(workers) + 1 \in WorkerIds
    /\ ~IsAlive(active_process)
    /\ \E r \in RunRequests :
          current_run' = [running |-> TRUE, test_id |-> r.test_id, part |-> r.part,
                          logs |-> <<>>]
    /\ workers' = Append(workers, StartedWorker)
    /\ active_process' = Len(workers) + 1
    /\ UNCHANGED <<last_completed, active_log_queues, main_loop>>
    /\ UNCHANGED outsideRun

\* _worker_entry: log_wrapper("[*] Initializing Part ... Worker PID: ...")
WorkerInit(w) ==
    /\ Running(w, "init")
    /\ workers' = [workers EXCEPT ![w].queue = Append(@, Initializing),
                                  ![w].pc = "batch"]
    /\ UNCHANGED <<active_process, current_run, last_completed, active_log_queues,
                   main_loop>>
    /\ UNCHANGED outsideRun

\* run_batch(...) returns, or raises and the except clause logs the error
WorkerBatch(w) ==
    /\ Running(w, "batch")
    /\ \/ workers' = [workers EXCEPT ![w].pc = "finally"]
       \/ workers' = [workers EXCEPT ![w].queue = Append(@, CriticalError),
                                     ![w].raised = TRUE,
                                     ![w].pc = "finally"]
    /\ UNCHANGED <<active_process, current_run, last_completed, active_log_queues,
                   main_loop>>
    /\ UNCHANGED outsideRun

\* finally: log_wrapper("[*] Batch process ended")
WorkerFinally(w) ==
    /\ Running(w, "finally")
    /\ workers' = [workers EXCEPT ![w].queue = Append(@, BatchEnded),
                                  ![w].pc = "exit"]
    /\ UNCHANGED <<active_process, current_run, last_completed, active_log_queues,
                   main_loop>>
    /\ UNCHANGED outsideRun

\* the worker process ends
WorkerEnds(w) ==
    /\ Running(w, "exit")
    /\ workers' = [workers EXCEPT ![w].alive = FALSE, ![w].pc = "ended"]
    /\ UNCHANGED <<active_process, current_run, last_completed, active_log_queues,
                   main_loop>>
    /\ UNCHANGED outsideRun

\* one pass of the loop of the thread _log_consumer started for worker w
ConsumeLog(w) ==
    /\ w \in 1..Len(workers)
    /\ Len(workers[w].queue) > 0
    /\ LET msg == Head(workers[w].queue) IN
       /\ main_loop' = BroadcastLog(main_loop, msg, active_log_queues)
       /\ current_run' = [current_run EXCEPT
                             !.logs = Append(@, msg),
                             !.running = IF IsFinal(msg) THEN FALSE ELSE @]
       /\ last_completed' = IF IsFinal(msg)
                             THEN [test_id |-> current_run.test_id,
                                   part |-> current_run.part,
                                   status |-> StatusOf(msg)]
                             ELSE last_completed
    /\ workers' = [workers EXCEPT ![w].queue = Tail(@)]
    /\ UNCHANGED <<active_process, active_log_queues>>
    /\ UNCHANGED outsideRun

\* stop_pipeline while the process is alive: terminate, join, broadcast_log,
\* last_completed, active_process = None, current_run reset
StopPipeline ==
    /\ IsAlive(active_process)
    /\ workers' = [workers EXCEPT ![active_process].alive = FALSE,
                                  ![active_process].pc = "terminated"]
    /\ main_loop' = BroadcastLog(main_loop, ForcedStop, active_log_queues)
    /\ last_completed' = [test_id |-> current_run.test_id, part |-> current_run.part,
                          status |-> "stopped"]
    /\ active_process' = NoProcess
    /\ current_run' = NoRun
    /\ UNCHANGED active_log_queues
    /\ UNCHANGED outsideRun

RunNext ==
    \/ RunPipeline
    \/ \E w \in WorkerIds : WorkerInit(w)
    \/ \E w \in WorkerIds : WorkerBatch(w)
    \/ \E w \in WorkerIds : WorkerFinally(w)
    \/ \E w \in WorkerIds : WorkerEnds(w)
    \/ \E w \in WorkerIds : ConsumeLog(w)
    \/ StopPipeline

RunSpec == PipeInit /\ [][RunNext]_vars

----------------------------------------------------------------------------
(* Properties *)

HasActive == active_provider \in DOMAIN providers
ActivePool == providers[active_provider]
NumKeys == Len(ActivePool.keys)
NumModels == Len(ActivePool.models)
RotateRan == last.op = "rotate" /\ last.pre # <<>>

C2_FalseMeansOrigin ==
    (last.op = "rotate" /\ last.ret = "false" /\ HasActive) =>
        /\ ActivePool.key_idx = 0
        /\ ActivePool.model_idx = 0
        /\ (NumKeys > 0 /\ NumModels > 0
              => CurrentOutcome(providers, active_provider).ret = "credential")

\* C2 amended: whenever rotate() has returned false on an active provider that has
\* at least one key, both its cursors are 0, and a get_current() issued next
\* succeeds if it has a model as well.
C2_FalseAfterCycleMeansOrigin ==
    (last.op = "rotate" /\ last.ret = "false" /\ HasActive /\ NumKeys > 0) =>
        /\ ActivePool.key_idx = 0
        /\ ActivePool.model_idx = 0
        /\ (NumModels > 0
              => CurrentOutcome(providers, active_provider).ret = "credential")

\* C2 witness: rotate returned false from the last combination of a 2 x 2 pool
C2_Witness ==
    /\ RotateRan
    /\ last.ret = "false"
    /\ last.pre = <<1, 1>>
    /\ ActivePool.key_idx = 0
    /\ ActivePool.model_idx = 0
    /\ CurrentOutcome(providers, active_provider).ret = "credential"

CursorsValid(p) == InRange(p.key_idx, p.keys) /\ InRange(p.model_idx, p.models)

\* C4: in every reachable state each provider's cursors are valid indices into its
\* key list and its model list, or get_current on that provider reports the pool
\* as unusable instead of indexing out of range.
C4_CursorsValidOrUnusable ==
    \A n \in DOMAIN providers :
        \/ CursorsValid(providers[n])
        \/ CurrentOutcome(providers, n).ret = "error: no api keys configured"

C6_CursorsPreservedOrReset ==
    (last.op = "update_settings" /\ last.pre # <<>>) =>
        LET pd == last.settings.providers[1]
            p == providers[pd.name]
        IN /\ p.key_idx = (IF last.pre[1] < Len(pd.keys) THEN last.pre[1] ELSE 0)
           /\ p.model_idx = (IF last.pre[2] < Len(pd.models) THEN last.pre[2] ELSE 0)

\* C6 witness: an update that shrank the key list below the key cursor and kept
\* the model list: key cursor reset, model cursor preserved
C6_Witness ==
    /\ last.op = "update_settings"
    /\ last.pre = <<1, 1>>
    /\ Len(last.settings.providers[1].keys) = 1
    /\ Len(last.settings.providers[1].models) = 2
    /\ providers[last.settings.providers[1].name].key_idx = 0
    /\ providers[last.settings.providers[1].name].model_idx = 1

NamedIn(settings) == {settings.providers[i].name : i \in 1..Len(settings.providers)}

\* C7 as stated: after update_settings the set of provider pools is exactly the
\* pools given in the call and the active provider is the one selected in it.
C7_PoolsReplaced ==
    last.op = "update_settings" =>
        /\ DOMAIN providers = NamedIn(last.settings)
        /\ \A i \in 1..Len(last.settings.providers) :
              LET pd == last.settings.providers[i] IN
              /\ providers[pd.name].keys = pd.keys
              /\ providers[pd.name].models = pd.models
        /\ last.settings.active_provider # Absent
              => active_provider = last.settings.active_provider

\* C7 amended: update_settings replaces the key list and the model list of every
\* provider named in the call by the lists given, keeps every provider not named
\* in the call as it was, and makes the provider selected in the call the active
\* one (the active provider is unchanged when the call selects none).
C7_PoolsMerged ==
    [][(last'.op = "update_settings" /\ last' # last) =>
          LET settings == last'.settings IN
          /\ DOMAIN providers' = DOMAIN providers \cup NamedIn(settings)
          /\ \A n \in DOMAIN providers \ NamedIn(settings) : providers'[n] = providers[n]
          /\ \A i \in 1..Len(settings.providers) :
                LET pd == settings.providers[i] IN
                /\ providers'[pd.name].keys = pd.keys
                /\ providers'[pd.name].models = pd.models
          /\ active_provider' = (IF settings.active_provider = Absent
                                 THEN active_provider
                                 ELSE settings.active_provider)
      ]_vars

\* C7 witness: an update that named a new provider and selected another one
C7_Witness ==
    /\ last.op = "update_settings"
    /\ NamedIn(last.settings) = {"claude"}
    /\ DOMAIN providers = {"google", "openai", "claude"}
    /\ last.settings.active_provider = "google"
    /\ active_provider = "google"

\* C8: in every reachable state the active-provider name designates a provider
\* present in the pool mapping, and the persisted rows carry the active flag on
\* exactly one provider.
C8_ExactlyOneActive ==
    /\ active_provider \in DOMAIN providers
    /\ Cardinality({n \in DOMAIN llm_providers : llm_providers[n].is_active}) = 1

\* C9: a rotate() that advanced to a new combination while a callback is
\* registered invokes the callback once and returns true.
C9_CallbackInvoked ==
    \A t \in Threads :
        (pc[t] = "rotate_callback")
            ~> (last.op = "rotate" /\ last.ret = "true" /\ last.callbacks = 1)

KeysMatchRows(keys, rows) ==
    /\ Len(keys) = Len(rows)
    /\ \A i \in 1..Len(keys) :
          keys[i].key = rows[i].key_value /\ keys[i].label = rows[i].label

\* C10: whenever rotate() or update_settings() has returned, the persisted record
\* (active flag, key list, model list and both cursors of every provider) equals
\* the in-memory state.
C10_PersistedEqualsMemory ==
    (last.op \in {"rotate", "update_settings"} /\ last.ret # "pending") =>
        /\ DOMAIN llm_providers = DOMAIN providers
        /\ DOMAIN llm_keys = DOMAIN providers
        /\ \A n \in DOMAIN providers :
              /\ llm_providers[n].is_active = (n = active_provider)
              /\ llm_providers[n].models = providers[n].models
              /\ llm_providers[n].current_key_idx = providers[n].key_idx
              /\ llm_providers[n].current_model_idx = providers[n].model_idx
              /\ KeysMatchRows(providers[n].keys, llm_keys[n])

\* C11: a restart loads from the persisted tables the state that was saved: the
\* same active provider and, for every provider, the same ordered key list with
\* labels, the same model list and the same two cursors, so get_current
\* designates the same credential before and after the restart.
C11_RoundTrip ==
    [][(last'.op = "restart" /\ last' # last) =>
          /\ active_provider' = active_provider
          /\ providers' = providers
          /\ CurrentOutcome(providers', active_provider')
                = CurrentOutcome(providers, active_provider)
      ]_vars

Returns(t) == pc[t] \notin {"idle", "rotate_callback"} /\ pc'[t] = "idle"

\* C12: rotate, update_settings and get_current run under the one lock of the
\* manager: at most one thread is inside a call, the state a returning
\* update_settings or rotate leaves is the result of applying the whole call to
\* the state it found when it took the lock (so the calls take effect in the
\* serial order of their lock acquisitions), and get_current runs only while no
\* call is in progress, so it never reads a partly updated cursor pair or pool.
C12_Serializable ==
    [][/\ \A t \in Threads : call'[t] # NoCall => lock' = t
       /\ \A t \in Threads :
             (Returns(t) /\ call[t].op = "update_settings") =>
                 /\ providers' = ApplyProviders(call[t].before.providers,
                                                call[t].settings.providers)
                 /\ active_provider' = NewActive(call[t].before.active_provider,
                                                 call[t].settings)
       /\ \A t \in Threads :
             (Returns(t) /\ call[t].op = "rotate") =>
                 LET b == call[t].before
                     r == AdvanceCursors(b.providers[b.active_provider])
                 IN /\ active_provider' = b.active_provider
                    /\ providers' = [b.providers EXCEPT ![b.active_provider] = r.pool]
                    /\ last'.ret = (IF r.advanced THEN "true" ELSE "false")
       /\ (last'.op = "get_current" /\ last' # last) =>
             /\ \A t \in Threads : call[t] = NoCall
             /\ last'.ret = CurrentOutcome(providers, active_provider).ret
             /\ last'.cred = CurrentOutcome(providers, active_provider).cred
      ]_vars

\* C12 witness: thread t1 is inside rotate with the model cursor one past the end
\* of the model list, and thread t2 is about to call into the manager
C12_Witness ==
    /\ pc["t1"] = "ro_wrap"
    /\ lock = "t1"
    /\ pc["t2"] = "idle"
    /\ providers[active_provider].model_idx = Len(providers[active_provider].models)
    /\ Len(providers[active_provider].models) = 2

\* the handler of GET /pipeline/config has read a cursor pair that rotate had
\* only partly updated
ConfigReadIsTorn ==
    /\ last.op = "get_pipeline_config"
    /\ \E t \in Threads : pc[t] = "ro_wrap"
    /\ last.pre[2] = Len(providers[active_provider].models)

----------------------------------------------------------------------------
(* Properties of the retry loop *)

ScenarioCursors == << <<0, 1>>, <<1, 0>>, <<1, 1>>, <<0, 0>> >>

\* the request is a call_llm without validation on provider google with two keys
\* and two models that began at cursor (0,0): every rotation it has made follows
\* a retryable failure of the provider call
InScenarioA ==
    /\ request.pc # "none"
    /\ request.fn = "call_llm"
    /\ ~request.validate_json
    /\ request.retries >= 5
    /\ request.start = <<0, 0>>
    /\ active_provider = "google"
    /\ NumKeys = 2
    /\ NumModels = 2

\* C13: in scenario A the first three retryable failures move the cursor to
\* (0,1), (1,0), (1,1) and each is followed by an immediate retry (no sleep, the
\* call goes on); the fourth is followed by one backoff sleep and leaves the
\* cursor at (0,0) for the next attempt.
C13_ScenarioA ==
    (InScenarioA /\ request.rotations <= 4) =>
        /\ request.pc # "blocked"
        /\ request.visited = SubSeq(ScenarioCursors, 1, request.rotations)
        /\ request.rotations <= 3 => request.sleeps = <<>>
        /\ request.rotations = 4 =>
              /\ Len(request.sleeps) = 1
              /\ CursorOf(providers, active_provider) = <<0, 0>>

StrictlyIncreasing(seq) == \A i, j \in 1..Len(seq) : i < j => seq[i] < seq[j]

\* C14: on a retryable error rotate is called exactly once; when it returned true
\* the next attempt follows with no sleep; when it returned false the call sleeps
\* (attempt number) * BackoffUnit seconds, the waits of one call growing strictly,
\* and by then the call has failed on every combination of the pool since it
\* began or last slept.
C14_BackoffAfterFullCycle ==
    [][(request.pc = "rotate_error" /\ request'.pc # "rotate_error") =>
          /\ request'.rotations = request.rotations + 1
          /\ last'.ret = "true" =>
                /\ request'.sleeps = request.sleeps
                /\ request'.pc = "loop"
                /\ request'.attempt = request.attempt + 1
          /\ last'.ret = "false" =>
                /\ request'.sleeps =
                      Append(request.sleeps, (request.attempt + 1) * BackoffUnit)
                /\ StrictlyIncreasing(request'.sleeps)
                /\ request'.pc = "loop"
                /\ request'.attempt = request.attempt + 1
                /\ request.episode + 1 >= NumKeys * NumModels
      ]_vars

LastError(req) == req.errors[Len(req.errors)]

\* C15: an error that reaches the handler with a message matching no rotatable
\* signature ends the call on that attempt with that error: no rotate, no sleep,
\* no further provider call, cursors unchanged.
C15_FatalErrorRaised ==
    [][(/\ request.pc = "try"
        /\ request'.pc # "rotate_parse"
        /\ Len(request'.errors) > Len(request.errors)
        /\ ~IsErrorRotatable(LastError(request'))) =>
          /\ request'.pc = "done"
          /\ request'.outcome = "error"
          /\ request'.rotations = request.rotations
          /\ request'.sleeps = request.sleeps
          /\ request'.invocations <= request.invocations + 1
          /\ UNCHANGED <<providers, active_provider, llm_providers, llm_keys>>
      ]_vars

\* C15 witness: the second attempt of a call, made after one rotation, got an
\* authorization error and the call ended with it
C15_Witness ==
    /\ request.pc = "done"
    /\ request.outcome = "error"
    /\ LastError(request) = AuthError
    /\ request.attempt = 1
    /\ request.rotations = 1
    /\ request.invocations = 2
    /\ request.sleeps = <<>>

\* C16: the retry loop terminates: the call is never stuck, the provider is
\* called at most retries times, and the call ends with a result or with an
\* error, the error of the last allowed attempt when that attempt failed.
C16_LoopTerminates ==
    /\ request.pc # "blocked"
    /\ request.pc # "none" => request.invocations <= request.retries
    /\ request.pc = "done" => request.outcome \in {"result", "error"}

\* C17: with validation on, a response that no repair step makes parsable leads
\* to a rotation and a retry under the rule of a retryable provider error
\* (retry at once when rotate returned true, sleep when it returned false), and
\* on the last attempt the parse error is raised; with validation off the raw
\* response is returned and no rotation follows a response.
C17_ParseFailureRetryable ==
    [][/\ (request.pc = "try" /\ request'.pc = "rotate_parse") =>
             /\ request.validate_json
             /\ request.attempt < request.retries - 1
       /\ (/\ request.pc = "try"
           /\ request'.pc = "done"
           /\ Len(request'.errors) > Len(request.errors)
           /\ LastError(request') = ParseError) =>
             /\ request.validate_json
             /\ request.attempt = request.retries - 1
             /\ request'.outcome = "error"
       /\ (request.pc = "rotate_parse" /\ request'.pc # "rotate_parse") =>
             /\ request'.rotations = request.rotations + 1
             /\ last'.ret = "true" => request'.sleeps = request.sleeps
             /\ last'.ret = "false" =>
                   request'.sleeps =
                      Append(request.sleeps, (request.attempt + 1) * BackoffUnit)
      ]_vars

----------------------------------------------------------------------------
(* Properties of the batch pipeline *)

\* C18: at most one worker process is alive at any time, whatever the
\* interleaving of run and stop requests, and a run request that finds a worker
\* alive is rejected: a request that started a worker found none alive.
C18_AtMostOneWorker ==
    /\ Cardinality(AliveWorkers) <= 1
    /\ \A h \in Handlers :
          handlers[h].pc = "run_assign" => AliveWorkers \subseteq {handlers[h].p}

\* C19: once every worker has ended or has been terminated, test.json holds every
\* question record whose persist step had completed, and load_progress returns
\* them to a later run.
C19_PersistedSurvivesKill ==
    AliveWorkers = {} => LoadProgress(test_json) = persisted

----------------------------------------------------------------------------
(* Properties of the retriever *)

ContextOf(r, c) ==
    CASE c = "system" -> r.system_context
      [] c = "toeic" -> r.toeic_context
      [] c = "user" -> r.user_context

\* C20: for every set of collections whose search raises, retrieve raises
\* nothing, returns the empty list for each failing collection and returns for
\* each other requested collection what its search returned.
C20_FailuresIsolated ==
    [][retrieval' # retrieval =>
          LET r == retrieval' IN
          /\ ~r.raised
          /\ \A c \in Collections :
                ContextOf(r, c) =
                   IF c \in r.collections /\ c \notin r.failing
                   THEN Search(store, c, r.k, IF c = "user" THEN r.user_id ELSE NoUser)
                   ELSE <<>>
      ]_vars

\* C20 witness: the search of the first collection raised and the other two
\* collections returned their documents
C20_Witness ==
    /\ retrieval.op = "retrieve"
    /\ ~retrieval.raised
    /\ retrieval.collections = Collections
    /\ retrieval.failing = {"system"}
    /\ retrieval.system_context = <<>>
    /\ Len(retrieval.toeic_context) = 1
    /\ Len(retrieval.user_context) = 2

----------------------------------------------------------------------------
(* Properties of indexing *)

IdsOf(batch) == {batch[i].id : i \in 1..Len(batch)}
StoredIds(docs) == {x.id : x \in docs}
CollectionOf(op) == IF op = "index_test" THEN "toeic" ELSE "user"

\* C21: an upsert stores every submitted document under its id in place of what
\* was stored under that id, keeps one document per id and leaves the other
\* documents alone, so the count grows by the number of new ids only; indexing
\* the same test file a second time submits the same ids and leaves the store
\* and its count as they were.
C21_UpsertIdempotent ==
    [][indexing' # indexing =>
          LET c == CollectionOf(indexing'.op)
              batch == indexing'.docs
          IN /\ \A i \in 1..Len(batch) : batch[i] \in store'[c]
             /\ \A x, y \in store'[c] : x.id = y.id => x = y
             /\ {x \in store'[c] : x.id \notin IdsOf(batch)}
                   = {x \in store[c] : x.id \notin IdsOf(batch)}
             /\ Cardinality(store'[c]) =
                   Cardinality(store[c])
                   + Cardinality(IdsOf(batch) \ StoredIds(store[c]))
             /\ \A o \in Collections \ {c} : store'[o] = store[o]
             /\ (indexing'.op = "index_test" /\ indexing'.again) =>
                   /\ IdsOf(batch) = IdsOf(indexing.docs)
                   /\ store' = store
      ]_vars

\* C21 witness: a test of two questions was indexed, its first question was
\* rewritten, and the test has since been indexed twice: the store holds the two
\* documents, the first with the new text
C21_Witness ==
    /\ indexing.op = "index_test"
    /\ indexing.again
    /\ Len(indexing.docs) = 2
    /\ Cardinality(store["toeic"]) = 2
    /\ \E d \in store["toeic"] :
          d.metadata.question_id = "q1" /\ d.content[1] = <<"Question", "she is reading">>

\* C24: synthesis is pure: a call that synthesizes from the same source as the
\* call before it (the same test file, and for an attempt the same result record)
\* produces the same documents: the same ids, content and metadata.
C24_SynthesisPure ==
    [][(indexing' # indexing /\ indexing'.again) => indexing'.docs = indexing.docs]_vars

----------------------------------------------------------------------------
(* Properties of the chain *)

\* C22: chat and explain_question raise nothing when the generation call fails
\* after retrieval: each returns a response with answer, context and sources
\* whose answer holds the error note and the text of the retrieved context cut
\* to the length limit.
C22_DegradedAnswer ==
    (rag_response.op # "none" /\ rag_response.generation = "error") =>
        /\ ~rag_response.raised
        /\ rag_response.answer.kind = "degraded"
        /\ rag_response.answer.error \in {QuotaError, AuthError}
        /\ rag_response.answer.context =
              Slice(ToPromptContext(rag_response.context), AnswerSlice) \o Ellipsis

----------------------------------------------------------------------------
(* Properties of the parse repair *)

\* C23: safe_parse_json returns the parsed document for a valid JSON text, and
\* the document that was meant for a JSON text inside a markdown fence, with one
\* trailing comma before a closing bracket, or between prose; when the direct
\* parse and every repair fail it raises.
C23_ParseRepair ==
    parsed.pc = "parsed" =>
        /\ (parsed.is_json /\ Len(parsed.wraps) <= 1) =>
              parsed.result = JsonLoads(parsed.intended)
        /\ parsed.result.ok =>
              LET inner == StripFence(parsed.text)
                  repaired == DropTrailingCommas(inner)
              IN \/ JsonLoads(parsed.text).ok
                 \/ JsonLoads(inner).ok
                 \/ JsonLoads(repaired).ok
                 \/ JsonLoads(SliceBraces(repaired)).ok

----------------------------------------------------------------------------
(* Further properties of the rotation manager *)

\* C29: rotate() called while the active provider is missing from the pools or
\* has no key returns false and changes nothing: the cursors of every provider,
\* the active provider and the persisted tables stay as they are, the callback
\* is not invoked and the lock is free again.
C29_UnusableRotateIsNoOp ==
    [][(last'.op = "rotate" /\ last' # last /\ (~HasActive \/ NumKeys = 0)) =>
          /\ last'.ret = "false"
          /\ last'.callbacks = 0
          /\ UNCHANGED <<providers, active_provider, llm_providers, llm_keys,
                         rotation_callback, lock, pc>>
      ]_vars

\* C29 witness: rotate returned false on an active pool that had lost its keys
\* while its model cursor stood at 1 and a callback was registered
C29_Witness ==
    /\ last.op = "rotate"
    /\ last.ret = "false"
    /\ last.pre = <<>>
    /\ rotation_callback = "set"
    /\ HasActive
    /\ NumKeys = 0
    /\ ActivePool.model_idx = 1
    /\ llm_providers[active_provider].current_model_idx = 1

\* C26: every rotate() returns and frees the lock, also when a callback is
\* registered and the rotation advanced: a thread that has reached the callback
\* inside rotate can enter the with-statement of get_active_resource_desc, whose
\* value is the argument of the callback, so the call goes on to its return.
C26_RotateReturns ==
    \A t \in Threads : pc[t] = "rotate_callback" => CanAcquire(lock)

----------------------------------------------------------------------------
(* Properties of the retry loop next to a second thread *)

\* C25: while the provider call of the retry loop runs and while the loop sleeps
\* in backoff, the calling thread does not hold the lock of the manager: it holds
\* the lock only inside get_current or rotate, so the lock is free for the other
\* thread during the whole provider call or sleep unless that thread holds it.
C25_LockFreeWhileCalling ==
    /\ request.pc \in {"adapter", "calling", "sleeping"} => lock # Caller
    /\ lock = Caller => request.pc \in {"get_current", "blocked"}
    /\ (request.pc \in {"calling", "sleeping"} /\ pc[Other] = "idle") => CanAcquire(lock)

\* C25 witness: the loop sleeps in backoff after its rotate, and the call the
\* manager served last is an update_settings of the other thread
C25_Witness ==
    /\ request.pc = "sleeping"
    /\ last.op = "update_settings"
    /\ lock = NoThread

\* C25 witness of the provider call: the adapter runs while the other thread
\* is inside rotate with the lock
C25_WitnessCalling ==
    /\ request.pc = "calling"
    /\ lock = Other

\* C27: the adapter an attempt invokes is the adapter of the provider whose pool
\* get_current read the credential from, whatever the other thread saves in
\* between.
C27_AdapterMatchesCredential ==
    request.pc = "calling" => request.adapter = AdapterOf(request.of_provider)

----------------------------------------------------------------------------
(* Properties of the two processes *)

PersistedCursor(table, n) == <<table[n].current_key_idx, table[n].current_model_idx>>

\* C28: the persisted cursors are one view for both processes: a rotate or
\* update_settings of one process changes the persisted cursors of a provider
\* only starting from the persisted values, that is, the copy the process held
\* when it made the call agreed with the tables, so that no rotation the other
\* process persisted is overwritten from a stale copy.
C28_NoStaleOverwrite ==
    [][\A n \in DOMAIN llm_providers :
          PersistedCursor(llm_providers', n) # PersistedCursor(llm_providers, n) =>
              IF replica'.calls # replica.calls
              THEN CursorOf(replica.providers, n) = PersistedCursor(llm_providers, n)
              ELSE CursorOf(providers, n) = PersistedCursor(llm_providers, n)
      ]_vars

----------------------------------------------------------------------------
(* Properties of the log path *)

\* what has been put on the queue of observer c so far
PutsOf(c) == active_log_queues[c].sent \o active_log_queues[c].queue

\* the messages of the callbacks for observer c the loop has not run yet
PendingFor(c) ==
    LET mine == SelectSeq(main_loop, LAMBDA cb : cb.client_id = c)
    IN [i \in 1..Len(mine) |-> mine[i].msg]

\* the messages broadcast while observer c was registered
BroadcastTo(c) ==
    LET mine == SelectSeq(broadcasts, LAMBDA b : c \in b.to)
    IN [i \in 1..Len(mine) |-> mine[i].msg]

LogsInOrder ==
    /\ WorkerBroadcasts = [i \in 1..Len(WorkerBroadcasts) |-> i]
    /\ log_queue = [i \in 1..Len(log_queue) |-> Len(WorkerBroadcasts) + i]
    /\ \A c \in DOMAIN Clients : PutsOf(c) \o PendingFor(c) = BroadcastTo(c)

PutOnLoop ==
    \A c \in DOMAIN Clients :
        PutsOf(c)' # PutsOf(c) =>
            /\ Len(main_loop) > 0
            /\ Head(main_loop).client_id = c
            /\ main_loop' = Tail(main_loop)
            /\ PutsOf(c)' = Append(PutsOf(c), Head(main_loop).msg)

\* C30: the messages the worker puts on its queue are broadcast in the order in
\* which they were put, each to every observer registered when broadcast_log is
\* called: the puts made and pending for an observer are the messages broadcast
\* while it was registered, in that order; and a message enters an observer
\* queue only when the event loop runs the callback handed to it, never in the
\* step of the draining thread.
C30_OrderedHandoff == []LogsInOrder /\ [][PutOnLoop]_vars

\* C30 witness: observer 1 has been given messages 1 and 2 and has sent the first
\* on; observer 2, which registered after the first broadcast, has been given
\* message 2 only
C30_Witness ==
    /\ active_log_queues[1].sent = <<1>>
    /\ active_log_queues[1].queue = <<2>>
    /\ PutsOf(2) = <<2>>
    /\ BroadcastTo(2) = <<2>>

----------------------------------------------------------------------------
(* Properties of the run state *)

\* worker w ran to its end, was not stopped, and all it logged has been consumed
RunOver(w) ==
    /\ active_process = w
    /\ workers[w].pc = "ended"
    /\ workers[w].queue = <<>>

\* C31: once a run is over, last_completed.status tells how the worker ended:
\* "error" when the batch function raised a critical error, "completed" only
\* when it returned without one.
C31_StatusTellsOutcome ==
    \A w \in 1..Len(workers) :
        RunOver(w) =>
            last_completed.status = IF workers[w].raised THEN "error" ELSE "completed"

\* C32: stop_pipeline leaves current_run.running false and no worker alive, and
\* from then on last_completed keeps status "stopped" with the ids of the stopped
\* run until a run started later ends: it changes only when the consumer takes a
\* message of the worker that is then the active process.
C32_StoppedStays ==
    [][/\ (active_process # NoProcess /\ active_process' = NoProcess) =>
              /\ ~current_run'.running
              /\ AliveWorkers' = {}
              /\ last_completed'.status = "stopped"
              /\ last_completed'.test_id = current_run.test_id
       /\ (last_completed.status = "stopped" /\ last_completed' # last_completed) =>
              \/ active_process # NoProcess /\ active_process' = NoProcess
              \/ \E w \in 1..Len(workers) :
                     /\ Len(workers'[w].queue) < Len(workers[w].queue)
                     /\ w = active_process
      ]_vars

\* the audio files (numbered from 1) that have a record in the list
UnitsOf(questions) == {questions[j] : j \in DOMAIN questions}

\* C33: in every run of the batch, the units the loop has passed (skipped on
\* resume or processed) are exactly the units with persisted records: a worker
\* about to process unit i + 1 holds records of the units 1..i and of no other,
\* and a worker whose loop ran past the last file holds records of every unit.
C33_SkipsPersistedUnits ==
    \A w \in 1..Len(workers) :
        \/ workers[w].pc = "process"
        \/ workers[w].pc = "ended" /\ workers[w].i = MaxUnits
        => UnitsOf(workers[w].final_questions) = 1..workers[w].i

\* the results of explain_question carry the identities that were asked for
FilteredResults ==
    rag_response.op = "explain_question" =>
        LET context == rag_response.context
            asked == rag_response.asked
        IN /\ context.system_context = <<>>
           /\ \A i \in DOMAIN context.toeic_context :
                  MetadataOf(context.toeic_context[i].id).test_id = asked.test_id
           /\ \A i \in DOMAIN context.user_context :
                  MetadataOf(context.user_context[i].id).question_id = asked.question_id

\* a call of explain_question finds the stored toeic documents of the test
FindsStored ==
    (rag_response' # rag_response /\ rag_response'.op = "explain_question") =>
        \A d \in store["toeic"] :
            MetadataOf(d.id).test_id = rag_response'.asked.test_id =>
                \E i \in DOMAIN rag_response'.context.toeic_context :
                    rag_response'.context.toeic_context[i].id = d.id

\* C34: what explain_question retrieved has an empty system context, toeic
\* results that all carry the requested test_id and user results that all carry
\* the requested question_id; and every stored toeic document of the requested
\* test is among the toeic results (fewer than five are stored).
C34_ExactFilters == []FilteredResults /\ [][FindsStored]_vars

\* a question of test T1 was explained from a toeic result and a user result
C34_Witness ==
    /\ rag_response.op = "explain_question"
    /\ rag_response.asked.test_id = "T1"
    /\ Len(rag_response.context.toeic_context) > 0
    /\ Len(rag_response.context.user_context) > 0
    /\ store["system"] # {}

\* C35: the user results of a retrieval made for a user are documents of that
\* user: no user result of chat or explain_question has another user_id than
\* the one the call was made with.
C35_OwnDocumentsOnly ==
    rag_response.op # "none" =>
        \A i \in DOMAIN rag_response.context.user_context :
            rag_response.context.user_context[i].user_id = rag_response.asked.user_id

\* the union of the three result lists of a context
UnionOf(context) ==
    context.system_context \o context.toeic_context \o context.user_context

ListeningValues ==
    {"listening_vocabulary", "listening_similar_sound", "listening_speed",
     "listening_context"}
GrammarValues == {"grammar_tense", "grammar_word_form", "grammar_article"}
ReadingValues == {"reading_inference", "reading_detail", "reading_vocabulary"}

\* C37: the error type of a mistake of part 1-4 is a listening value, of part 5 a
\* grammar value, of part 6-7 a reading value; the record of part 2 with the
\* transcripts of the meeting question gets a listening value.
C37_TypeFollowsPart ==
    indexing.op = "classify_error" =>
        /\ indexing.part_number \in 1..4 => indexing.error_type \in ListeningValues
        /\ indexing.part_number = 5 => indexing.error_type \in GrammarValues
        /\ indexing.part_number \in 6..7 => indexing.error_type \in ReadingValues
        /\ (/\ indexing.part_number = 2
            /\ indexing.user_transcript = MeetingHeard
            /\ indexing.correct_transcript = MeetingTranscript)
           => indexing.error_type \in ListeningValues

\* the record of part 2 with both transcripts of the meeting question was classified
C37_Witness ==
    /\ indexing.op = "classify_error"
    /\ indexing.part_number = 2
    /\ indexing.user_transcript = MeetingHeard
    /\ indexing.correct_transcript = MeetingTranscript
    /\ indexing.error_type = "listening_speed"

====
